---------------------------- MODULE Spec2Model ----------------------------
(***************************************************************************)
(* A model of smart-postgres: the read-only guard and the paginated        *)
(* executor of lib/db-client.ts and lib/db.ts, the HTTP entry points that  *)
(* reach the database driver, and the POST /query pipeline.                *)
(*                                                                         *)
(* SQL text is modelled as TLA+ strings, character by character: the       *)
(* guard's startsWith / indexOf / trim / regular expressions are computed  *)
(* on the characters as the JavaScript computes them.                      *)
(***************************************************************************)
EXTENDS Integers, Sequences, FiniteSets, TLC

(***************************************************************************)
(* Characters and JavaScript string primitives                             *)
(***************************************************************************)

\* The markdown fence of three backquotes.  A backquote cannot be written in
\* a TLA+ string literal, so the character "^" stands for it throughout.
FENCE == "^^^"

Whitespace == {" ", "\t", "\n"}

LowerLetters == "abcdefghijklmnopqrstuvwxyz"

UpperLetters == "ABCDEFGHIJKLMNOPQRSTUVWXYZ"

Digits == "0123456789"

SetMin(S) == CHOOSE m \in S : \A n \in S : m <= n

SetMax(S) == CHOOSE m \in S : \A n \in S : m >= n

\* s.charAt(i-1): the empty string outside the string
CharAt(s, i) == IF 1 <= i /\ i <= Len(s) THEN SubSeq(s, i, i) ELSE ""

\* s.slice(n) for 0 <= n
Slice(s, n) == IF n >= Len(s) THEN "" ELSE SubSeq(s, n + 1, Len(s))

\* s.substring(a-1, b) with 1-based inclusive positions, clamped
Sub(s, a, b) == IF a > b \/ a > Len(s) THEN "" ELSE SubSeq(s, a, IF b > Len(s) THEN Len(s) ELSE b)

StartsWith(s, p) == Len(s) >= Len(p) /\ SubSeq(s, 1, Len(p)) = p

EndsWith(s, p) == Len(s) >= Len(p) /\ SubSeq(s, Len(s) - Len(p) + 1, Len(s)) = p

\* s.indexOf(p): 0-based position of the first occurrence, -1 when absent
IndexOf(s, p) ==
  LET occ == {i \in 0..(Len(s) - Len(p)) : SubSeq(s, i + 1, i + Len(p)) = p}
  IN  IF occ = {} THEN -1 ELSE SetMin(occ)

\* s.trim()
Trim(s) ==
  LET solid == {i \in 1..Len(s) : SubSeq(s, i, i) \notin Whitespace}
  IN  IF solid = {} THEN "" ELSE SubSeq(s, SetMin(solid), SetMax(solid))

UpperSet == {SubSeq(UpperLetters, i, i) : i \in 1..26}

LowerSet == {SubSeq(LowerLetters, i, i) : i \in 1..26}

DigitSet == {SubSeq(Digits, i, i) : i \in 1..10}

LowerOf ==
  [c \in UpperSet |->
     LET i == CHOOSE j \in 1..26 : SubSeq(UpperLetters, j, j) = c
     IN  SubSeq(LowerLetters, i, i)]

LowerChar(c) == IF c \in UpperSet THEN LowerOf[c] ELSE c

RECURSIVE ToLowerCase(_)
\* s.toLowerCase()
ToLowerCase(s) ==
  IF s = "" THEN "" ELSE LowerChar(SubSeq(s, 1, 1)) \o ToLowerCase(Slice(s, 1))

\* the regular expression class \w
WordChars == LowerSet \cup UpperSet \cup DigitSet \cup {"_"}

IsWordChar(c) == c \in WordChars

\* the regular expression class \s
IsSpace(c) == c \in Whitespace

\* first position >= i that holds no whitespace (Len(s)+1 when there is none)
SkipSpace(s, i) ==
  LET solid == {j \in i..Len(s) : ~IsSpace(SubSeq(s, j, j))}
  IN  IF solid = {} THEN Len(s) + 1 ELSE SetMin(solid)

\* first position >= i that holds no word character
SkipWord(s, i) ==
  LET stop == {j \in i..Len(s) : ~IsWordChar(SubSeq(s, j, j))}
  IN  IF stop = {} THEN Len(s) + 1 ELSE SetMin(stop)

(***************************************************************************)
(* Query cleaning: lib/db-client.ts 13-22, lib/db.ts 72-80                 *)
(***************************************************************************)

\* query.replace(/^```(\w+)?\n/, ''): the fence, a greedy optional word, then a
\* newline; nothing is removed unless the newline follows the word run
StripOpeningFence(s) ==
  IF ~StartsWith(s, FENCE) THEN s
  ELSE LET e == SkipWord(s, Len(FENCE) + 1)
       IN  IF CharAt(s, e) = "\n" THEN Slice(s, e) ELSE s

\* .replace(/\n```$/, '')
StripClosingFence(s) ==
  IF EndsWith(s, "\n" \o FENCE) THEN Sub(s, 1, Len(s) - Len(FENCE) - 1) ELSE s

\* if (query.startsWith('```')) cleanQuery = query.replace(..).replace(..).trim()
StripMarkdown(query) ==
  IF StartsWith(query, FENCE)
    THEN Trim(StripClosingFence(StripOpeningFence(query)))
    ELSE query

\* .replace(/;+\s*$/, ''): the leftmost run of semicolons that is followed by
\* nothing but whitespace up to the end of the string
StripTrailingSemicolons(s) ==
  LET solid == {i \in 1..Len(s) : ~IsSpace(SubSeq(s, i, i))}
      last  == IF solid = {} THEN 0 ELSE SetMax(solid)
      other == {i \in 1..last : SubSeq(s, i, i) # ";"}
      keep  == IF other = {} THEN 0 ELSE SetMax(other)
  IN  IF last = 0 \/ SubSeq(s, last, last) # ";" THEN s ELSE Sub(s, 1, keep)

\* lib/db-client.ts: cleanQuery after lines 14-22
ClientCleanQuery(query) == Trim(StripTrailingSemicolons(StripMarkdown(query)))

\* lib/db-client.ts line 27
ClientNormalizedQuery(query) == ToLowerCase(ClientCleanQuery(query))

\* lib/db.ts: cleanQuery after lines 73-80 (no semicolon stripping, and no trim
\* unless the statement was fenced)
DbCleanQuery(query) == StripMarkdown(query)

\* lib/db.ts line 90
DbNormalizedQuery(query) == ToLowerCase(Trim(DbCleanQuery(query)))

(***************************************************************************)
(* The read-only guard: lib/db-client.ts 29-74, lib/db.ts 93-147           *)
(***************************************************************************)

\* the keyword list with one entry lost
MutWriteOperations ==
  { "delete", "insert", "update", "truncate", "create", "alter", "drop", "grant",
    "revoke", "lock", "vacuum", "copy", "refresh materialized view", "merge",
    "call" }

writeOperations ==
  { "delete", "insert", "update", "truncate", "create", "alter", "drop", "grant",
    "revoke", "lock", "vacuum", "copy", "refresh materialized view", "merge",
    "call", "do" }

\* the tail \s*as\s*\( of the CTE pattern tried at position j: the position
\* after the opening parenthesis, 0 when it does not match there
MatchAsParen(s, j) ==
  LET a == SkipSpace(s, j)
      b == SkipSpace(s, a + 2)
  IN  IF Sub(s, a, a + 1) = "as" /\ Len(s) >= a + 1 /\ CharAt(s, b) = "("
        THEN b + 1 ELSE 0

\* /\w+\s*(?:\(.*?\))?\s*as\s*\(/ tried at position i, with the backtracking
\* order of the engine: the whole word run first (then the optional
\* parenthesised group, lazily to the first closing parenthesis on the same
\* line after which the tail matches, then without the group), then a shorter
\* word, which can only be followed directly by "as".  The position after the
\* match, 0 when there is none.
MatchCteAt(s, i) ==
  IF ~IsWordChar(CharAt(s, i)) THEN 0
  ELSE
    LET e == SkipWord(s, i)
        j == SkipSpace(s, e)
        closers == {c \in (j + 1)..Len(s) :
                      /\ SubSeq(s, c, c) = ")"
                      /\ \A k \in (j + 1)..(c - 1) : SubSeq(s, k, k) # "\n"
                      /\ MatchAsParen(s, c + 1) # 0}
        shorter == {k \in 1..(e - i - 1) : MatchAsParen(s, i + k) # 0}
    IN  IF CharAt(s, j) = "(" /\ closers # {}
          THEN MatchAsParen(s, SetMin(closers) + 1)
        ELSE IF MatchAsParen(s, e) # 0
          THEN MatchAsParen(s, e)
        ELSE IF shorter # {}
          THEN MatchAsParen(s, i + SetMax(shorter))
        ELSE 0

RECURSIVE CteMatchesFrom(_, _)
\* afterWith.match(/.../g) from position p on: the matched texts, left to
\* right, each search resuming where the previous match ended
CteMatchesFrom(s, p) ==
  LET starts == {i \in p..Len(s) : MatchCteAt(s, i) # 0}
  IN  IF starts = {} THEN << >>
      ELSE LET i == SetMin(starts)
               e == MatchCteAt(s, i)
           IN  <<SubSeq(s, i, e - 1)>> \o CteMatchesFrom(s, e)

StartsWithWriteOperation(text) ==
  \E wop \in writeOperations : StartsWith(text, wop \o " ")

\* lines 63-66: the text that follows the FIRST occurrence of the matched
\* declaration in afterWith, trimmed, starts with a write keyword and a space
CteHasWriteOperation(afterWith, cte) ==
  LET cteContent == Slice(afterWith, IndexOf(afterWith, cte) + Len(cte))
  IN  StartsWithWriteOperation(Trim(cteContent))

\* lines 57-68
CteCheck(normalizedQuery) ==
  LET withIndex == IndexOf(normalizedQuery, "with ")
      afterWith == Slice(normalizedQuery, withIndex + 5)
      cteMatches == CteMatchesFrom(afterWith, 1)
  IN  /\ withIndex # -1
      /\ \E n \in 1..Len(cteMatches) : CteHasWriteOperation(afterWith, cteMatches[n])

\* lines 50-70: writeOperations.some(op => ...)
\* (the CTE test does not depend on op, so it is taken out of the iteration)
hasWriteOperation(normalizedQuery) ==
  \/ \E op \in writeOperations : StartsWith(normalizedQuery, op \o " ")
  \/ writeOperations # {} /\ CteCheck(normalizedQuery)

(***************************************************************************)
(* Aggregate detection: lib/db-client.ts 77                                *)
(***************************************************************************)

\* \b at the boundary between positions i-1 and i
WordBoundary(s, i) == IsWordChar(CharAt(s, i - 1)) # IsWordChar(CharAt(s, i))

AggregateWords == {"count", "sum", "avg", "min", "max"}

\* the aggregate test without the word boundaries
MutIsAggregateQuery(normalizedQuery) ==
  \/ \E w \in AggregateWords : IndexOf(normalizedQuery, w) # -1
  \/ IndexOf(normalizedQuery, "group by") # -1

\* /\b(count|sum|avg|min|max|group\s+by)\b/i.test(normalizedQuery)
isAggregateQuery(normalizedQuery) ==
  \E i \in 1..Len(normalizedQuery) :
     /\ WordBoundary(normalizedQuery, i)
     /\ \/ \E w \in AggregateWords :
             /\ Sub(normalizedQuery, i, i + Len(w) - 1) = w
             /\ WordBoundary(normalizedQuery, i + Len(w))
        \/ /\ Sub(normalizedQuery, i, i + 4) = "group"
           /\ IsSpace(CharAt(normalizedQuery, i + 5))
           /\ LET b == SkipSpace(normalizedQuery, i + 5)
              IN  /\ Sub(normalizedQuery, b, b + 1) = "by"
                  /\ WordBoundary(normalizedQuery, b + 2)

(***************************************************************************)
(* Bounds of the model                                                     *)
(***************************************************************************)

\* common table expressions in a generated WITH statement
MaxCtes == 2

\* rows the user statement yields, beyond two full pages
MaxExtraRows == 3

\* highest page number requested
MaxPage == 4

\* POST /query requests sent by one client, one after the other
MaxRequests == 2

(***************************************************************************)
(* Program constants                                                       *)
(***************************************************************************)

\* lib/db-client.ts line 4
DEFAULT_PAGE_SIZE == 200

\* the /query/execute route that pages on its own pool: const PAGE_SIZE = 50
PAGE_SIZE == 50

WriteError ==
  "Write operations are not allowed in read-only mode. Only SELECT and read-only operations are permitted."

\* lib/db-client.ts line 139: error.message || '...'
ExecuteFallbackError == "An error occurred while executing the query"

\* messages a failing driver call may carry (the empty message included)
DriverMessages == {"relation does not exist", ""}

(***************************************************************************)
(* Statement texts sent to the driver                                      *)
(***************************************************************************)

RECURSIVE NatToString(_)
\* template-literal rendering of a non-negative number
NatToString(n) ==
  IF n < 10 THEN SubSeq(Digits, n + 1, n + 1)
  ELSE NatToString(n \div 10) \o SubSeq(Digits, (n % 10) + 1, (n % 10) + 1)

\* rendering of a number that may be negative
NumToString(n) == IF n < 0 THEN "-" \o NatToString(0 - n) ELSE NatToString(n)

\* lib/db-client.ts line 98
ClientCountQuery(clean) ==
  "WITH user_query AS (" \o clean \o ") SELECT COUNT(*) as total FROM user_query"

\* the page query with OFFSET page * 200
MutClientPaginatedQuery(clean, p) ==
  "WITH user_query AS (" \o clean \o ") \n        SELECT * FROM user_query \n        LIMIT "
    \o NumToString(DEFAULT_PAGE_SIZE) \o " \n        OFFSET "
    \o NumToString(p * DEFAULT_PAGE_SIZE)

\* lib/db-client.ts lines 103-106
ClientPaginatedQuery(clean, p) ==
  "WITH user_query AS (" \o clean \o ") \n        SELECT * FROM user_query \n        LIMIT "
    \o NumToString(DEFAULT_PAGE_SIZE) \o " \n        OFFSET "
    \o NumToString((p - 1) * DEFAULT_PAGE_SIZE)

\* rows a LIMIT l OFFSET o window returns out of n rows
WindowRows(n, l, o) ==
  LET left == n - o
  IN  IF left <= 0 THEN 0 ELSE IF left < l THEN left ELSE l

\* Math.ceil(total / size)
CeilDiv(a, b) == (a + b - 1) \div b

NoPagination == << >>

\* the pagination block with hasMore true on an exactly full last page
MutClientPagination(p, tot) ==
  << [ page       |-> p,
       pageSize   |-> DEFAULT_PAGE_SIZE,
       total      |-> tot,
       totalPages |-> CeilDiv(tot, DEFAULT_PAGE_SIZE),
       hasMore    |-> p * DEFAULT_PAGE_SIZE <= tot ] >>

\* lib/db-client.ts lines 122-128
ClientPagination(p, tot) ==
  << [ page       |-> p,
       pageSize   |-> DEFAULT_PAGE_SIZE,
       total      |-> tot,
       totalPages |-> CeilDiv(tot, DEFAULT_PAGE_SIZE),
       hasMore    |-> p * DEFAULT_PAGE_SIZE < tot ] >>

(***************************************************************************)
(* State                                                                   *)
(***************************************************************************)

VARIABLES
  query,        \* the SQL text handed to the execution entry point
  ctes,         \* the common table expressions the statement was written with
  page,         \* the requested page number
  dbRows,       \* rows the statement yields in the database
  entry,        \* the entry point serving the request
  pc,           \* position of the request in its handler
  cleanQuery,   \* executeQuery's cleanQuery
  guard,        \* decision of the read-only guard in this call
  driverCalls,  \* statements passed to the driver's query(), in order
  total,        \* executeQuery's total
  outcome,      \* what executeQuery returned or threw
  poolOpen,     \* a Pool / Client created and not yet ended
  response,     \* the HTTP response
  nlQuery,      \* POST /query: the natural-language query of the request
  inputs,       \* POST /query: the inputs field of the request body
  origin,       \* who sent the POST /query request
  queryType,    \* POST /query: what analyzeQueryType returned
  calls,        \* POST /query: the pipeline functions called, with their argument
  thrown,       \* POST /query: the message of the error being handled
  pendingQuery, \* query interface: the query waiting for its inputs
  requests,     \* query interface: requests sent so far
  body,         \* POST /query: whether the request body parses as JSON
  llmConfig,    \* POST /query: the llmConfig field of the request body
  sqlQuery,     \* POST /query: what generateSQLQuery returned
  procs,        \* concurrent requests: each request's position and what it holds
  dbPool,       \* lib/db.ts: the module-level pool
  llm,          \* lib/llm.ts: the module-level llm
  llmLog,       \* lib/llm.ts: initializeLLM calls and LLM calls of all requests, in order
  llmAnswer,    \* identifyRequiredInputs: the completion, cleaned and given to JSON.parse
  identified,   \* identifyRequiredInputs: what the call returned or threw
  now,          \* schema cache: Date.now()
  schemaCache,  \* schema cache: the module-level map
  lastWrite,    \* schema cache: per key, the last cacheSchema not followed by invalidateCache
  lookup,       \* schema cache: the last getCachedSchema call and its result
  context,      \* ContextManager: this.context
  attempted,    \* ContextManager: the attempts added since initialize, newest first
  added,        \* ContextManager: addQueryToContext calls so far
  catchVersion, \* the version of POST /query whose inner catch runs
  processingError,\* message of the error query processing threw
  suggestionCall,\* getSuggestionForError: not called, answered or failed
  suggestionResult,\* its trimmed completion, or its error's message
  catchPc,      \* position inside the catch blocks
  catchResponse,\* the JSON the catch blocks answer with
  fetchRoute,   \* the code serving the request: a route over initializeDatabase, or getSchema
  fetchConfig,  \* its dbConfig
  fetchPc,      \* position of the request
  fetched,      \* requests served so far
  openPools,    \* pools created for requests and not ended
  catalogSent,  \* the latest catalog query: key, time, time of the previous introspection
  lastIntrospection,\* per connection key, the time of its last successful introspection
  fetchAnswer,  \* how the request ended
  naturalQuery, \* findRelevantPreviousContext: its argument
  prevQueries,  \* context.conversation.recentQueries, or none without a context
  hasContext,   \* this.context is not null
  clockStep,    \* milliseconds Date.now() moves on between two iterations
  dateNow,      \* Date.now()
  loopIndex,    \* the element of recentQueries the loop is at
  scores,       \* the score each iteration computed, with the clock reading it used
  bestMatch,    \* the local bestMatch: index and score, index 0 for null
  relevant,     \* the value returned: an index into recentQueries, 0 for null
  findPc,       \* position inside findRelevantPreviousContext
  history,      \* query interface: the history items
  pagination,   \* the pagination state
  currentPage,  \* the currentPage state
  loading,      \* the loading state
  awaitingInputs,\* pendingQuery: the query that waits for inputs, 0 for null
  inFlight,     \* page requests sent and not yet answered
  submittedPage,\* the page the latest handleSubmit request asked for, 0 before any
  pageRun,      \* the page changes since the last other operation
  operations,   \* operations of the user so far
  formConfig,   \* ConfigForm: the database fields of the config state
  formLoading,  \* ConfigForm: the loading state
  testSuccess,  \* ConfigForm: the testSuccess state
  testRequest,  \* the connection test in flight, with the settings it carries
  lastTest,     \* the connection test answered last
  pageConfig,   \* page.tsx: the config state that onConnect sets
  formSteps     \* steps of the user on the form so far

\* the state of the POST /query pipeline and of the query interface
pipeVars == << nlQuery, inputs, origin, queryType, calls, thrown, pendingQuery, requests,
               body, llmConfig, sqlQuery >>

\* the state of one request served on its own
coreVars == << query, ctes, page, dbRows, entry, pc, cleanQuery, guard, driverCalls,
               total, outcome, poolOpen, response, pipeVars >>

\* module-level state shared by requests served concurrently
concurrentVars == << procs, dbPool, llm, llmLog >>

\* identifyRequiredInputs called on its own
inputsVars == << llmAnswer, identified >>

\* lib/schema-cache.ts on its own
cacheVars == << now, schemaCache, lastWrite, lookup >>

\* lib/chatHistory.ts ContextManager on its own
contextVars == << context, attempted, added >>

\* the inner catch of POST /query and its suggestion call
suggestVars == << catchVersion, processingError, suggestionCall, suggestionResult, catchPc, catchResponse >>

\* schema fetches and connection tests with the pools they create
fetchVars == << fetchRoute, fetchConfig, fetchPc, fetched, openPools, catalogSent, lastIntrospection, fetchAnswer >>

\* lib/chatHistory.ts findRelevantPreviousContext
relevanceVars == << naturalQuery, prevQueries, hasContext, clockStep, dateNow, loopIndex, scores, bestMatch, relevant, findPc >>

\* the query interface: history, pagination and page changes
uiVars == << history, pagination, currentPage, loading, awaitingInputs, inFlight, submittedPage, pageRun, operations >>

\* the connection form: edits, connection tests and connect
formVars == << formConfig, formLoading, testSuccess, testRequest, lastTest, pageConfig, formSteps >>

\* the state of the components modelled on their own
auxVars == << concurrentVars, inputsVars, cacheVars, contextVars, suggestVars, fetchVars, relevanceVars, uiVars, formVars >>

\* everything but the named component
exceptConcurrent == << coreVars, inputsVars, cacheVars, contextVars, suggestVars, fetchVars, relevanceVars, uiVars, formVars >>
exceptInputs == << coreVars, concurrentVars, cacheVars, contextVars, suggestVars, fetchVars, relevanceVars, uiVars, formVars >>
exceptCache == << coreVars, concurrentVars, inputsVars, contextVars, suggestVars, fetchVars, relevanceVars, uiVars, formVars >>
exceptContext == << coreVars, concurrentVars, inputsVars, cacheVars, suggestVars, fetchVars, relevanceVars, uiVars, formVars >>
exceptSuggest == << coreVars, concurrentVars, inputsVars, cacheVars, contextVars, fetchVars, relevanceVars, uiVars, formVars >>
exceptFetch == << coreVars, concurrentVars, inputsVars, cacheVars, contextVars, suggestVars, relevanceVars, uiVars, formVars >>
exceptRelevance == << coreVars, concurrentVars, inputsVars, cacheVars, contextVars, suggestVars, fetchVars, uiVars, formVars >>
exceptUi == << coreVars, concurrentVars, inputsVars, cacheVars, contextVars, suggestVars, fetchVars, relevanceVars, formVars >>
exceptForm == << coreVars, concurrentVars, inputsVars, cacheVars, contextVars, suggestVars, fetchVars, relevanceVars, uiVars >>

vars == << coreVars, auxVars >>

NoOutcome ==
  [status |-> "none", error |-> "", rowCount |-> 0, firstRow |-> 0,
   pagination |-> NoPagination]

Thrown(msg) == [NoOutcome EXCEPT !.status = "error", !.error = msg]

Returned(n, first, pg) ==
  [NoOutcome EXCEPT !.status = "ok", !.rowCount = n, !.firstRow = first,
                    !.pagination = pg]

NoResponse ==
  [code |-> 0, keys |-> {}, success |-> FALSE, error |-> "", rowCount |-> 0,
   pagination |-> NoPagination, type |-> "", sql |-> "", suggestion |-> ""]

\* NextResponse.json({ success: false, error }, { status })
ErrorResponse(status, msg) ==
  [NoResponse EXCEPT !.code = status, !.keys = {"success", "error"}, !.error = msg]

\* NextResponse.json({ success: true, data, pagination })
DataResponse(n, pg) ==
  [NoResponse EXCEPT !.code = 200, !.keys = {"success", "data", "pagination"},
                     !.success = TRUE, !.rowCount = n, !.pagination = pg]

DriverCall(k, t) == [kind |-> k, text |-> t]

(***************************************************************************)
(* lib/db-client.ts executeQuery                                           *)
(***************************************************************************)

\* line 139: throw new Error(error.message || '...')
ClientCatch(msg) == IF msg = "" THEN ExecuteFallbackError ELSE msg

\* executeQuery with the guard's throw placed after the statement was sent
MutClientExecStart ==
  /\ pc = "c_start"
  /\ LET clean == ClientCleanQuery(query)
         norm  == ToLowerCase(clean)
     IN  /\ cleanQuery' = clean
         /\ guard' = IF hasWriteOperation(norm) THEN "rejected" ELSE "passed"
         /\ outcome' = IF hasWriteOperation(norm) THEN Thrown(ClientCatch(WriteError)) ELSE outcome
         /\ pc' = IF isAggregateQuery(norm) THEN "c_aggregate" ELSE "c_count"
  /\ poolOpen' = TRUE
  /\ UNCHANGED pipeVars
  /\ UNCHANGED << query, ctes, page, dbRows, entry, driverCalls, total, response >>
  /\ UNCHANGED auxVars

\* lines 9-79: new Pool, cleaning, the guard, the aggregate test
ClientExecStart ==
  /\ pc = "c_start"
  /\ LET clean == ClientCleanQuery(query)
         norm  == ToLowerCase(clean)
     IN  /\ cleanQuery' = clean
         /\ IF hasWriteOperation(norm)
              THEN /\ guard' = "rejected"
                   /\ outcome' = Thrown(ClientCatch(WriteError))
                   /\ pc' = "c_finally"
              ELSE /\ guard' = "passed"
                   /\ outcome' = outcome
                   /\ pc' = IF isAggregateQuery(norm) THEN "c_aggregate" ELSE "c_count"
  /\ poolOpen' = TRUE
  /\ UNCHANGED pipeVars
  /\ UNCHANGED << query, ctes, page, dbRows, entry, driverCalls, total, response >>
  /\ UNCHANGED auxVars

\* lines 79-94: the statement is sent once, as it is
ClientAggregate ==
  /\ pc = "c_aggregate"
  /\ driverCalls' = Append(driverCalls, DriverCall("raw", cleanQuery))
  /\ \/ outcome' = Returned(dbRows, 1, NoPagination)
     \/ \E m \in DriverMessages : outcome' = Thrown(ClientCatch(m))
  /\ pc' = "c_finally"
  /\ UNCHANGED pipeVars
  /\ UNCHANGED << query, ctes, page, dbRows, entry, cleanQuery, guard, total, poolOpen, response >>
  /\ UNCHANGED auxVars

\* lines 98-100: the count query
ClientCount ==
  /\ pc = "c_count"
  /\ driverCalls' = Append(driverCalls, DriverCall("count", ClientCountQuery(cleanQuery)))
  /\ \/ /\ total' = dbRows
        /\ pc' = "c_page"
        /\ outcome' = outcome
     \/ /\ \E m \in DriverMessages : outcome' = Thrown(ClientCatch(m))
        /\ pc' = "c_finally"
        /\ total' = total
  /\ UNCHANGED pipeVars
  /\ UNCHANGED << query, ctes, page, dbRows, entry, cleanQuery, guard, poolOpen, response >>
  /\ UNCHANGED auxVars

\* lines 103-129: the page query and the pagination block; a negative OFFSET
\* is refused by the database
ClientPage ==
  /\ pc = "c_page"
  /\ driverCalls' = Append(driverCalls, DriverCall("page", ClientPaginatedQuery(cleanQuery, page)))
  /\ \/ /\ page >= 1
        /\ outcome' = Returned(WindowRows(dbRows, DEFAULT_PAGE_SIZE, (page - 1) * DEFAULT_PAGE_SIZE),
                               (page - 1) * DEFAULT_PAGE_SIZE + 1,
                               ClientPagination(page, total))
     \/ \E m \in DriverMessages : outcome' = Thrown(ClientCatch(m))
  /\ pc' = "c_finally"
  /\ UNCHANGED pipeVars
  /\ UNCHANGED << query, ctes, page, dbRows, entry, cleanQuery, guard, total, poolOpen, response >>
  /\ UNCHANGED auxVars

\* the pool ended at the end of the try block only, not in a finally
MutClientFinally ==
  /\ pc = "c_finally"
  /\ poolOpen' = IF outcome.status = "ok" THEN FALSE ELSE poolOpen
  /\ pc' = "c_done"
  /\ UNCHANGED pipeVars
  /\ UNCHANGED << query, ctes, page, dbRows, entry, cleanQuery, guard, driverCalls, total,
                  outcome, response >>
  /\ UNCHANGED auxVars

\* lines 140-146: pool.end(), its own failure swallowed
ClientFinally ==
  /\ pc = "c_finally"
  /\ poolOpen' = FALSE
  /\ pc' = "c_done"
  /\ UNCHANGED pipeVars
  /\ UNCHANGED << query, ctes, page, dbRows, entry, cleanQuery, guard, driverCalls, total,
                  outcome, response >>
  /\ UNCHANGED auxVars

(***************************************************************************)
(* POST /query/execute over lib/db-client (the route that only calls       *)
(* executeQuery)                                                           *)
(***************************************************************************)

ClientRouteRequest ==
  /\ entry = "none"
  /\ entry' = "client"
  /\ pc' = "c_start"
  /\ UNCHANGED pipeVars
  /\ UNCHANGED << query, ctes, page, dbRows, cleanQuery, guard, driverCalls, total, outcome,
                  poolOpen, response >>
  /\ UNCHANGED auxVars

ClientRouteRespond ==
  /\ entry = "client"
  /\ pc = "c_done"
  /\ response' = IF outcome.status = "ok"
                   THEN DataResponse(outcome.rowCount, outcome.pagination)
                   ELSE ErrorResponse(500, outcome.error)
  /\ pc' = "responded"
  /\ UNCHANGED pipeVars
  /\ UNCHANGED << query, ctes, page, dbRows, entry, cleanQuery, guard, driverCalls, total,
                  outcome, poolOpen >>
  /\ UNCHANGED auxVars

(***************************************************************************)
(* lib/db.ts: initializeDatabase and executeQuery                          *)
(***************************************************************************)

SetReadOnly == "SET default_transaction_read_only = on;"

SetTimeout == "SET statement_timeout = 30000;"

\* lib/db.ts 13-32: the statements initializeDatabase sends on its client
InitializeCalls == << DriverCall("set", SetReadOnly), DriverCall("set", SetTimeout) >>

DbRequest ==
  /\ entry = "none"
  /\ entry' = "db"
  /\ pc' = "d_init"
  /\ UNCHANGED pipeVars
  /\ UNCHANGED << query, ctes, page, dbRows, cleanQuery, guard, driverCalls, total, outcome,
                  poolOpen, response >>
  /\ UNCHANGED auxVars

\* initializeDatabase(config): the module-level pool is replaced; a connection
\* failure is rethrown and executeQuery is not reached
DbInitialize ==
  /\ pc = "d_init"
  /\ poolOpen' = TRUE
  /\ \/ /\ driverCalls' = driverCalls \o InitializeCalls
        /\ pc' = "d_start"
        /\ outcome' = outcome
     \/ /\ \E m \in DriverMessages : outcome' = Thrown(m)
        /\ pc' = "d_done"
        /\ driverCalls' = driverCalls
  /\ UNCHANGED pipeVars
  /\ UNCHANGED << query, ctes, page, dbRows, entry, cleanQuery, guard, total, response >>
  /\ UNCHANGED auxVars

\* lib/db.ts 68-147: cleaning and the guard
DbExecStart ==
  /\ pc = "d_start"
  /\ LET clean == DbCleanQuery(query)
         norm  == ToLowerCase(Trim(clean))
     IN  /\ cleanQuery' = clean
         /\ IF hasWriteOperation(norm)
              THEN /\ guard' = "rejected"
                   /\ outcome' = Thrown(WriteError)
                   /\ pc' = "d_done"
              ELSE /\ guard' = "passed"
                   /\ outcome' = outcome
                   /\ pc' = "d_query"
  /\ UNCHANGED pipeVars
  /\ UNCHANGED << query, ctes, page, dbRows, entry, driverCalls, total, poolOpen, response >>
  /\ UNCHANGED auxVars

\* lib/db.ts 150-163: pool.query(cleanQuery, params); an error is rethrown as it is
DbQuery ==
  /\ pc = "d_query"
  /\ driverCalls' = Append(driverCalls, DriverCall("raw", cleanQuery))
  /\ \/ outcome' = Returned(dbRows, 1, NoPagination)
     \/ \E m \in DriverMessages : outcome' = Thrown(m)
  /\ pc' = "d_done"
  /\ UNCHANGED pipeVars
  /\ UNCHANGED << query, ctes, page, dbRows, entry, cleanQuery, guard, total, poolOpen, response >>
  /\ UNCHANGED auxVars

(***************************************************************************)
(* POST /query/execute paging on the pool of initializeDatabase            *)
(***************************************************************************)

PoolCountQuery(q) == "WITH query AS (" \o q \o ") SELECT COUNT(*) as total FROM query"

PoolPaginatedQuery(q, p) ==
  "WITH query AS (" \o q \o ") \n      SELECT * FROM query \n      LIMIT "
    \o NumToString(PAGE_SIZE) \o " \n      OFFSET " \o NumToString((p - 1) * PAGE_SIZE)

PoolPagination(p, tot) ==
  << [ page       |-> p,
       pageSize   |-> PAGE_SIZE,
       total      |-> tot,
       totalPages |-> CeilDiv(tot, PAGE_SIZE),
       hasMore    |-> p * PAGE_SIZE < tot ] >>

PoolRouteRequest ==
  /\ entry = "none"
  /\ entry' = "pool"
  /\ pc' = "p_init"
  /\ UNCHANGED pipeVars
  /\ UNCHANGED << query, ctes, page, dbRows, cleanQuery, guard, driverCalls, total, outcome,
                  poolOpen, response >>
  /\ UNCHANGED auxVars

\* const pool = await initializeDatabase(dbConfig)
PoolRouteInitialize ==
  /\ pc = "p_init"
  /\ poolOpen' = TRUE
  /\ \/ /\ driverCalls' = driverCalls \o InitializeCalls
        /\ pc' = "p_count"
        /\ response' = response
     \/ /\ \E m \in DriverMessages : response' = ErrorResponse(500, m)
        /\ pc' = "responded"
        /\ driverCalls' = driverCalls
  /\ UNCHANGED pipeVars
  /\ UNCHANGED << query, ctes, page, dbRows, entry, cleanQuery, guard, total, outcome >>
  /\ UNCHANGED auxVars

\* the count query: the request's text is embedded as it came
PoolRouteCount ==
  /\ pc = "p_count"
  /\ driverCalls' = Append(driverCalls, DriverCall("count", PoolCountQuery(query)))
  /\ \/ /\ total' = dbRows
        /\ pc' = "p_page"
        /\ response' = response
     \/ /\ \E m \in DriverMessages : response' = ErrorResponse(500, m)
        /\ pc' = "responded"
        /\ total' = total
  /\ UNCHANGED pipeVars
  /\ UNCHANGED << query, ctes, page, dbRows, entry, cleanQuery, guard, outcome, poolOpen >>
  /\ UNCHANGED auxVars

PoolRoutePage ==
  /\ pc = "p_page"
  /\ driverCalls' = Append(driverCalls, DriverCall("page", PoolPaginatedQuery(query, page)))
  /\ \/ /\ page >= 1
        /\ response' = DataResponse(WindowRows(dbRows, PAGE_SIZE, (page - 1) * PAGE_SIZE),
                                    PoolPagination(page, total))
     \/ \E m \in DriverMessages : response' = ErrorResponse(500, m)
  /\ pc' = "responded"
  /\ UNCHANGED pipeVars
  /\ UNCHANGED << query, ctes, page, dbRows, entry, cleanQuery, guard, total, outcome, poolOpen >>
  /\ UNCHANGED auxVars

(***************************************************************************)
(* POST /execute-sql                                                       *)
(***************************************************************************)

Methods == {"POST", "GET"}

\* the handler up to client.connect(): the method check, the parameter
\* check, new Client, connect
SqlHandlerRequest ==
  /\ entry = "none"
  /\ entry' = "handler"
  /\ \E method \in Methods :
       IF method # "POST"
         THEN /\ response' = [NoResponse EXCEPT !.code = 405, !.keys = {"error"},
                                                !.error = "Method not allowed"]
              /\ pc' = "responded"
              /\ poolOpen' = poolOpen
       ELSE IF query = ""
         THEN /\ response' = [NoResponse EXCEPT !.code = 400, !.keys = {"error"},
                                                !.error = "Missing required parameters"]
              /\ pc' = "responded"
              /\ poolOpen' = poolOpen
       ELSE \/ /\ pc' = "h_query"
               /\ poolOpen' = TRUE
               /\ response' = response
            \/ /\ \E m \in DriverMessages : response' = ErrorResponse(500, m)
               /\ pc' = "responded"
               /\ poolOpen' = FALSE
  /\ UNCHANGED pipeVars
  /\ UNCHANGED << query, ctes, page, dbRows, cleanQuery, guard, driverCalls, total, outcome >>
  /\ UNCHANGED auxVars

\* const result = await client.query(query); the response; client.end()
SqlHandlerQuery ==
  /\ pc = "h_query"
  /\ driverCalls' = Append(driverCalls, DriverCall("raw", query))
  /\ \/ response' = [NoResponse EXCEPT !.code = 200,
                                       !.keys = {"success", "data", "rowCount", "timing"},
                                       !.success = TRUE, !.rowCount = dbRows]
     \/ \E m \in DriverMessages : response' = ErrorResponse(500, m)
  /\ poolOpen' = FALSE
  /\ pc' = "responded"
  /\ UNCHANGED pipeVars
  /\ UNCHANGED << query, ctes, page, dbRows, entry, cleanQuery, guard, total, outcome >>
  /\ UNCHANGED auxVars

(***************************************************************************)
(* Requests: the SQL texts the entry points are given                      *)
(***************************************************************************)

Leads == {"", "  ", FENCE \o "sql\n", FENCE \o "\n"}

Heads == {"delete", "DROP", "do", "select", "SELECT", "with"}

Separators == {"", " ", "\t", "\n", ";"}

Rests == {"", "from t", "max(id) from t", "1 with x as (delete from t)"}

Tails == {"", ";", " ; ", "\n" \o FENCE}

\* texts of the shape lead, first word, separator, rest, tail
ShapedQueries ==
  {l \o h \o sp \o r \o t : l \in Leads, h \in Heads, sp \in Separators,
                            r \in Rests, t \in Tails}

\* every guarded keyword in front of a table name, and the empty request
KeywordQueries == {k \o " t" : k \in writeOperations} \cup {"", "refresh t"}

PlainQueries == ShapedQueries \cup KeywordQueries

WithHeads == {"with ", "WITH\n"}

CteNames == {"xa", "a"}

\* what stands between the name and the body: AS, AS MATERIALIZED,
\* a column list
CteForms == {" as (", " as materialized (", "(c) as ("}

CteBodies == {"select 1", "delete from t returning *", " DELETE FROM t"}

CteDecls == [name : CteNames, form : CteForms, body : CteBodies]

CteLists == UNION {[1..n -> CteDecls] : n \in 1..MaxCtes}

RECURSIVE RenderCtes(_, _)
RenderCtes(l, i) ==
  IF i > Len(l) THEN ""
  ELSE (IF i = 1 THEN "" ELSE ", ")
         \o l[i].name \o l[i].form \o l[i].body \o ")" \o RenderCtes(l, i + 1)

\* WITH name AS (body), ... SELECT * FROM name
RenderWith(h, l) == h \o RenderCtes(l, 1) \o " select * from " \o l[1].name

Idle ==
  /\ entry = "none"
  /\ pc = "idle"
  /\ cleanQuery = ""
  /\ guard = "none"
  /\ driverCalls = << >>
  /\ total = 0
  /\ outcome = NoOutcome
  /\ poolOpen = FALSE
  /\ response = NoResponse

\* no concurrent requests
ConcurrentIdle ==
  /\ procs = << >>
  /\ dbPool = 0
  /\ llm = 0
  /\ llmLog = << >>

\* identifyRequiredInputs not called
InputsIdle ==
  /\ llmAnswer = [kind |-> "none", items |-> << >>]
  /\ identified = [status |-> "none", error |-> "", value |-> << >>]

\* lib/schema-cache.ts on its own, at rest
CacheIdle ==
  /\ now = 0
  /\ schemaCache = << >>
  /\ lastWrite = << >>
  /\ lookup = [key |-> "", at |-> 0, result |-> "none"]

\* lib/chatHistory.ts ContextManager on its own, at rest
ContextIdle ==
  /\ context = [initialised |-> FALSE, recentQueries |-> << >>, relatedTables |-> {},
                commonPatterns |-> {}]
  /\ attempted = << >>
  /\ added = 0

\* the inner catch of POST /query and its suggestion call, at rest
SuggestIdle ==
  /\ catchVersion = "none"
  /\ processingError = ""
  /\ suggestionCall = "none"
  /\ suggestionResult = ""
  /\ catchPc = "idle"
  /\ catchResponse = NoResponse

\* schema fetches and connection tests with the pools they create, at rest
FetchIdle ==
  /\ fetchRoute = "none"
  /\ fetchConfig = << >>
  /\ fetchPc = "idle"
  /\ fetched = 0
  /\ openPools = 0
  /\ catalogSent = [n |-> 0, key |-> "", at |-> 0, prev |-> -1]
  /\ lastIntrospection = << >>
  /\ fetchAnswer = "none"

\* lib/chatHistory.ts findRelevantPreviousContext, at rest
RelevanceIdle ==
  /\ naturalQuery = ""
  /\ prevQueries = << >>
  /\ hasContext = FALSE
  /\ clockStep = 0
  /\ dateNow = 0
  /\ loopIndex = 0
  /\ scores = << >>
  /\ bestMatch = [index |-> 0, score |-> 0]
  /\ relevant = 0
  /\ findPc = "idle"

\* the query interface: history, pagination and page changes, at rest
UiIdle ==
  /\ history = << >>
  /\ pagination = [q |-> 0, page |-> 0, totalPages |-> 0]
  /\ currentPage = 1
  /\ loading = FALSE
  /\ awaitingInputs = 0
  /\ inFlight = {}
  /\ submittedPage = 0
  /\ pageRun = [requested |-> 0, failed |-> FALSE, clean |-> TRUE]
  /\ operations = 0

\* the connection form: edits, connection tests and connect, at rest
FormIdle ==
  /\ formConfig = 0
  /\ formLoading = FALSE
  /\ testSuccess = FALSE
  /\ testRequest = [settings |-> 0]
  /\ lastTest = [settings |-> 0, ok |-> FALSE]
  /\ pageConfig = [settings |-> 0, tested |-> [settings |-> 0, ok |-> FALSE]]
  /\ formSteps = 0

\* the components modelled on their own, at rest
AuxIdle ==
  /\ ConcurrentIdle
  /\ InputsIdle
  /\ CacheIdle
  /\ ContextIdle
  /\ SuggestIdle
  /\ FetchIdle
  /\ RelevanceIdle
  /\ UiIdle
  /\ FormIdle

\* no POST /query request yet
PipeIdle ==
  /\ nlQuery = ""
  /\ inputs = "absent"
  /\ origin = "none"
  /\ queryType = ""
  /\ calls = << >>
  /\ thrown = ""
  /\ pendingQuery = ""
  /\ requests = 0
  /\ body = "json"
  /\ llmConfig = "valid"
  /\ sqlQuery = ""

\* one request with any of the texts, for page 1 of a one-row result
Init ==
  /\ \/ /\ query \in PlainQueries
        /\ ctes = << >>
     \/ \E h \in WithHeads, l \in CteLists :
          /\ query = RenderWith(h, l)
          /\ ctes = l
  /\ page = 1
  /\ dbRows = 1
  /\ Idle
  /\ PipeIdle
  /\ AuxIdle

Next ==
  \/ ClientRouteRequest
  \/ ClientExecStart
  \/ ClientAggregate
  \/ ClientCount
  \/ ClientPage
  \/ ClientFinally
  \/ ClientRouteRespond
  \/ DbRequest
  \/ DbInitialize
  \/ DbExecStart
  \/ DbQuery
  \/ PoolRouteRequest
  \/ PoolRouteInitialize
  \/ PoolRouteCount
  \/ PoolRoutePage
  \/ SqlHandlerRequest
  \/ SqlHandlerQuery

Spec == Init /\ [][Next]_vars


(***************************************************************************)
(* POST /query (app/api/query/execute/route.ts lines 170-284) and the      *)
(* query interface that sends its requests                                 *)
(***************************************************************************)

\* natural-language queries typed by the user
NlQueries == {"show all orders", "orders after a date"}

\* raw completions of the classifier prompt
ClassifierAnswers ==
  {"NEEDS_QUERY", "NEEDS_EXPLANATION", " NEEDS_EXPLANATION\n", "NEEDS_INPUT", "READY",
   "needs_input"}

\* raw completions of the SQL generation prompt
GeneratorAnswers ==
  {"select * from orders",
   "SELECT count(*) FROM orders WHERE d > '2024-01-01';",
   FENCE \o "sql\nselect * from orders\n" \o FENCE,
   "ERROR: Missing required input: start date",
   "\n ERROR: Missing required input: start date ",
   "Error: cannot answer",
   "delete from orders"}

\* messages of a failing LLM call and of a failing schema fetch
LlmFailures == {"429 Too Many Requests", ""}
SchemaFailures == {"connect ECONNREFUSED", ""}
ParseFailure == "Unexpected token } in JSON"
ConfigFailure == "Invalid enum value"

\* completions of the error suggestion prompt
SuggestionAnswers == {"Check the table name.", "  "}

InnerFallbackError == "An error occurred during query processing"
OuterFallbackError == "An unexpected error occurred"
NoSuggestion == "No suggestion available"

\* values of the inputs field: missing, null, an object without keys, an
\* object with the collected values
InputsValues == {"absent", "null", "empty", "values"}

\* !inputs
Falsy(i) == i \in {"absent", "null"}

Call(f, a) == [fn |-> f, arg |-> a]

Called(f) == \E i \in 1..Len(calls) : calls[i].fn = f

\* lines 209-213
ExplanationResponse ==
  [NoResponse EXCEPT !.code = 200, !.keys = {"success", "type", "explanation"},
                     !.success = TRUE, !.type = "explanation"]

\* lines 219-223
InputRequiredResponse ==
  [NoResponse EXCEPT !.code = 200, !.keys = {"success", "type", "requiredInputs"},
                     !.success = TRUE, !.type = "input_required"]

\* lines 249-256
QueryResponse(sql, n, pg) ==
  [NoResponse EXCEPT !.code = 200,
                     !.keys = {"success", "type", "query", "result", "validation", "pagination"},
                     !.success = TRUE, !.type = "query", !.sql = sql, !.rowCount = n,
                     !.pagination = pg]

\* lines 269-273
FailureResponse(msg, sug) ==
  [NoResponse EXCEPT !.code = 500, !.keys = {"success", "error", "suggestion"},
                     !.error = msg, !.suggestion = sug]

\* a new request: nothing of the previous one is kept on the server
NewRequest(o, q, i, p, b, c) ==
  /\ requests < MaxRequests
  /\ requests' = requests + 1
  /\ origin' = o
  /\ nlQuery' = q
  /\ inputs' = i
  /\ page' = p
  /\ body' = b
  /\ llmConfig' = c
  /\ entry' = "query"
  /\ pc' = "q_parse"
  /\ query' = ""
  /\ cleanQuery' = ""
  /\ guard' = "none"
  /\ driverCalls' = << >>
  /\ total' = 0
  /\ outcome' = NoOutcome
  /\ poolOpen' = FALSE
  /\ response' = NoResponse
  /\ queryType' = ""
  /\ calls' = << >>
  /\ thrown' = ""
  /\ sqlQuery' = ""
  /\ UNCHANGED << ctes, dbRows, pendingQuery >>
  /\ UNCHANGED auxVars

\* query interface, handleSubmit: the typed query, the current page, no inputs
HandleSubmit ==
  /\ entry = "none"
  /\ \E q \in NlQueries, p \in 1..MaxPage :
       NewRequest("submit", q, "absent", p, "json", "valid")

\* a resubmission that leaves the collected values out of the body
MutHandleInputSubmit ==
  /\ entry = "none"
  /\ pendingQuery # ""
  /\ \E i \in {"absent"} :
       NewRequest("inputSubmit", pendingQuery, i, 1, "json", "valid")

\* query interface, handleInputSubmit: the pending query with inputValues
\* (an object, with every required input filled in), no page
HandleInputSubmit ==
  /\ entry = "none"
  /\ pendingQuery # ""
  /\ \E i \in {"empty", "values"} :
       NewRequest("inputSubmit", pendingQuery, i, 1, "json", "valid")

\* any other client of the endpoint
ApiRequest ==
  /\ entry = "none"
  /\ \E q \in NlQueries, i \in InputsValues, b \in {"json", "malformed"},
        c \in {"valid", "invalid"} :
          NewRequest("api", q, i, 1, b, c)

\* what a request carries and what its handler never writes
requestVars == << nlQuery, inputs, origin, pendingQuery, requests, body, llmConfig,
                  page, dbRows, ctes, entry >>

\* the state of executeQuery
executeVars == << cleanQuery, guard, driverCalls, total, outcome, poolOpen >>

\* line 173: request.json()
QueryParseBody ==
  /\ entry = "query"
  /\ pc = "q_parse"
  /\ IF body = "malformed"
       THEN /\ thrown' = ParseFailure
            /\ pc' = "q_outer"
       ELSE /\ thrown' = thrown
            /\ pc' = "q_init"
  /\ UNCHANGED << requestVars, executeVars, queryType, calls, query, response, sqlQuery >>
  /\ UNCHANGED auxVars

\* lines 185-190: initializeLLM, its error wrapped and thrown to the outer catch
QueryInitializeLLM ==
  /\ entry = "query"
  /\ pc = "q_init"
  /\ calls' = Append(calls, Call("initializeLLM", llmConfig))
  /\ IF llmConfig = "invalid"
       THEN /\ thrown' = "Failed to initialize LLM: " \o ConfigFailure
            /\ pc' = "q_outer"
       ELSE /\ thrown' = thrown
            /\ pc' = "q_schema"
  /\ UNCHANGED << requestVars, executeVars, queryType, query, response, sqlQuery >>
  /\ UNCHANGED auxVars

\* line 195: getSchema
QueryGetSchema ==
  /\ entry = "query"
  /\ pc = "q_schema"
  /\ calls' = Append(calls, Call("getSchema", ""))
  /\ \/ /\ pc' = "q_analyze"
        /\ thrown' = thrown
     \/ /\ \E m \in SchemaFailures : thrown' = m
        /\ pc' = "q_catch"
  /\ UNCHANGED << requestVars, executeVars, queryType, query, response, sqlQuery >>
  /\ UNCHANGED auxVars

\* the branch choice that asks for inputs whether or not the request has them
MutQueryAnalyze ==
  /\ entry = "query"
  /\ pc = "q_analyze"
  /\ calls' = Append(calls, Call("analyzeQueryType", nlQuery))
  /\ \/ \E raw \in ClassifierAnswers :
          /\ queryType' = Trim(raw)
          /\ pc' = IF Trim(raw) = "NEEDS_EXPLANATION" THEN "q_explain"
                   ELSE IF Trim(raw) = "NEEDS_INPUT" THEN "q_inputs"
                   ELSE "q_generate"
          /\ thrown' = thrown
     \/ /\ \E m \in LlmFailures : thrown' = m
        /\ pc' = "q_catch"
        /\ queryType' = queryType
  /\ UNCHANGED << requestVars, executeVars, query, response, sqlQuery >>
  /\ UNCHANGED auxVars

\* lines 205-226: analyzeQueryType (lib/llm.ts lines 66-90 return the trimmed
\* completion) and the choice of the branch
QueryAnalyze ==
  /\ entry = "query"
  /\ pc = "q_analyze"
  /\ calls' = Append(calls, Call("analyzeQueryType", nlQuery))
  /\ \/ \E raw \in ClassifierAnswers :
          /\ queryType' = Trim(raw)
          /\ pc' = IF Trim(raw) = "NEEDS_EXPLANATION" THEN "q_explain"
                   ELSE IF Trim(raw) = "NEEDS_INPUT" /\ Falsy(inputs) THEN "q_inputs"
                   ELSE "q_generate"
          /\ thrown' = thrown
     \/ /\ \E m \in LlmFailures : thrown' = m
        /\ pc' = "q_catch"
        /\ queryType' = queryType
  /\ UNCHANGED << requestVars, executeVars, query, response, sqlQuery >>
  /\ UNCHANGED auxVars

\* lines 208-215
QueryExplain ==
  /\ entry = "query"
  /\ pc = "q_explain"
  /\ calls' = Append(calls, Call("generateSchemaExplanation", nlQuery))
  /\ \/ /\ response' = ExplanationResponse
        /\ pc' = "responded"
        /\ thrown' = thrown
     \/ /\ \E m \in LlmFailures : thrown' = m
        /\ pc' = "q_catch"
        /\ response' = response
  /\ UNCHANGED << requestVars, executeVars, queryType, query, sqlQuery >>
  /\ UNCHANGED auxVars

\* lines 216-224; identifyRequiredInputs throws on a completion that is not
\* the JSON it asked for
QueryIdentifyInputs ==
  /\ entry = "query"
  /\ pc = "q_inputs"
  /\ calls' = Append(calls, Call("identifyRequiredInputs", nlQuery))
  /\ \/ /\ response' = InputRequiredResponse
        /\ pc' = "responded"
        /\ thrown' = thrown
     \/ /\ \E m \in LlmFailures \cup {"Invalid JSON response from LLM"} : thrown' = m
        /\ pc' = "q_catch"
        /\ response' = response
  /\ UNCHANGED << requestVars, executeVars, queryType, query, sqlQuery >>
  /\ UNCHANGED auxVars

\* the generation step without the sentinel test
MutQueryGenerate ==
  /\ entry = "query"
  /\ pc = "q_generate"
  /\ \/ \E raw \in GeneratorAnswers :
          /\ sqlQuery' = Trim(raw)
          /\ calls' = calls \o << Call("generateSQLQuery", nlQuery),
                                  Call("executeQuery", Trim(raw)) >>
          /\ thrown' = thrown
          /\ pc' = "c_start"
          /\ query' = Trim(raw)
     \/ /\ calls' = Append(calls, Call("generateSQLQuery", nlQuery))
        /\ \E m \in LlmFailures : thrown' = m
        /\ pc' = "q_catch"
        /\ query' = query
        /\ sqlQuery' = sqlQuery
  /\ UNCHANGED << requestVars, executeVars, queryType, response >>
  /\ UNCHANGED auxVars

\* lines 225-236: generateSQLQuery (lib/llm.ts lines 222-248 return the
\* trimmed completion), the sentinel test, the call of executeQuery
QueryGenerate ==
  /\ entry = "query"
  /\ pc = "q_generate"
  /\ \/ \E raw \in GeneratorAnswers :
          /\ sqlQuery' = Trim(raw)
          /\ IF StartsWith(Trim(raw), "ERROR:")
               THEN /\ calls' = Append(calls, Call("generateSQLQuery", nlQuery))
                    /\ thrown' = Trim(raw)
                    /\ pc' = "q_catch"
                    /\ query' = query
               ELSE /\ calls' = calls \o << Call("generateSQLQuery", nlQuery),
                                           Call("executeQuery", Trim(raw)) >>
                    /\ thrown' = thrown
                    /\ pc' = "c_start"
                    /\ query' = Trim(raw)
     \/ /\ calls' = Append(calls, Call("generateSQLQuery", nlQuery))
        /\ \E m \in LlmFailures : thrown' = m
        /\ pc' = "q_catch"
        /\ query' = query
        /\ sqlQuery' = sqlQuery
  /\ UNCHANGED << requestVars, executeVars, queryType, response >>
  /\ UNCHANGED auxVars

\* lines 236-256: executeQuery has returned or thrown; validateQueryResult
\* never throws
QueryExecuted ==
  /\ entry = "query"
  /\ pc = "c_done"
  /\ IF outcome.status = "ok"
       THEN /\ calls' = Append(calls, Call("validateQueryResult", query))
            /\ response' = QueryResponse(query, outcome.rowCount, outcome.pagination)
            /\ pc' = "responded"
            /\ thrown' = thrown
       ELSE /\ calls' = calls
            /\ response' = response
            /\ pc' = "q_catch"
            /\ thrown' = outcome.error
  /\ UNCHANGED << requestVars, executeVars, queryType, query, sqlQuery >>
  /\ UNCHANGED auxVars

\* an inner catch that asks for a suggestion and then generates again
MutQueryCatch ==
  /\ entry = "query"
  /\ pc = "q_catch"
  /\ calls' = Append(calls, Call("getSuggestionForError", thrown))
  /\ pc' = "q_generate"
  /\ UNCHANGED << requestVars, executeVars, queryType, query, thrown, sqlQuery, response >>
  /\ UNCHANGED auxVars

\* lines 258-274: the inner catch; getSuggestionForError may fail or return
\* an empty text
QueryCatch ==
  /\ entry = "query"
  /\ pc = "q_catch"
  /\ LET errorMessage == IF thrown = "" THEN InnerFallbackError ELSE thrown
     IN  /\ calls' = Append(calls, Call("getSuggestionForError", errorMessage))
         /\ \/ \E raw \in SuggestionAnswers :
                 response' = FailureResponse(errorMessage,
                               IF Trim(raw) = "" THEN NoSuggestion ELSE Trim(raw))
            \/ response' = FailureResponse(errorMessage, NoSuggestion)
  /\ pc' = "responded"
  /\ UNCHANGED << requestVars, executeVars, queryType, query, thrown, sqlQuery >>
  /\ UNCHANGED auxVars

\* lines 275-280: the outer catch
QueryOuterCatch ==
  /\ entry = "query"
  /\ pc = "q_outer"
  /\ response' = ErrorResponse(500, IF thrown = "" THEN OuterFallbackError ELSE thrown)
  /\ pc' = "responded"
  /\ UNCHANGED << requestVars, executeVars, queryType, query, thrown, calls, sqlQuery >>
  /\ UNCHANGED auxVars

\* query interface, handleSubmit after the fetch: an input_required answer
\* makes the query the pending one
HandleSubmitResponse ==
  /\ entry = "query"
  /\ pc = "responded"
  /\ origin = "submit"
  /\ pendingQuery' = IF response.success /\ response.type = "input_required"
                       THEN nlQuery ELSE pendingQuery
  /\ entry' = "none"
  /\ pc' = "idle"
  /\ UNCHANGED << nlQuery, inputs, origin, requests, body, llmConfig, page, dbRows, ctes >>
  /\ UNCHANGED << executeVars, queryType, query, thrown, calls, response, sqlQuery >>
  /\ UNCHANGED auxVars

\* query interface, handleInputSubmit after the fetch: a success clears the
\* pending query, a failure keeps it
HandleInputSubmitResponse ==
  /\ entry = "query"
  /\ pc = "responded"
  /\ origin = "inputSubmit"
  /\ pendingQuery' = IF response.success THEN "" ELSE pendingQuery
  /\ entry' = "none"
  /\ pc' = "idle"
  /\ UNCHANGED << nlQuery, inputs, origin, requests, body, llmConfig, page, dbRows, ctes >>
  /\ UNCHANGED << executeVars, queryType, query, thrown, calls, response, sqlQuery >>
  /\ UNCHANGED auxVars

\* another client has read its response
ApiResponse ==
  /\ entry = "query"
  /\ pc = "responded"
  /\ origin = "api"
  /\ entry' = "none"
  /\ pc' = "idle"
  /\ UNCHANGED << nlQuery, inputs, origin, requests, body, llmConfig, page, dbRows, ctes,
                  pendingQuery >>
  /\ UNCHANGED << executeVars, queryType, query, thrown, calls, response, sqlQuery >>
  /\ UNCHANGED auxVars

\* rows the generated statement yields: none, a few, more than one page
InitQuery ==
  /\ query = ""
  /\ ctes = << >>
  /\ page = 1
  /\ dbRows \in {0, MaxExtraRows, DEFAULT_PAGE_SIZE + MaxExtraRows}
  /\ Idle
  /\ PipeIdle
  /\ AuxIdle

NextQuery ==
  \/ HandleSubmit
  \/ HandleInputSubmit
  \/ ApiRequest
  \/ QueryParseBody
  \/ QueryInitializeLLM
  \/ QueryGetSchema
  \/ QueryAnalyze
  \/ QueryExplain
  \/ QueryIdentifyInputs
  \/ QueryGenerate
  \/ ClientExecStart
  \/ ClientAggregate
  \/ ClientCount
  \/ ClientPage
  \/ ClientFinally
  \/ QueryExecuted
  \/ QueryCatch
  \/ QueryOuterCatch
  \/ HandleSubmitResponse
  \/ HandleInputSubmitResponse
  \/ ApiResponse

SpecQuery == InitQuery /\ [][NextQuery]_vars

(***************************************************************************)
(* Pages of one statement through lib/db-client.ts executeQuery            *)
(***************************************************************************)

\* statements with and without an aggregate word
PageQueries == {"select * from t", "SELECT id FROM t ORDER BY id;", "select max(id) from t"}

\* any page, page 0 included, of a result of up to two full pages and a rest
InitPage ==
  /\ query \in PageQueries
  /\ ctes = << >>
  /\ page \in 0..MaxPage
  /\ dbRows \in 0..(2 * DEFAULT_PAGE_SIZE + MaxExtraRows)
  /\ Idle
  /\ PipeIdle
  /\ AuxIdle

NextPage ==
  \/ ClientRouteRequest
  \/ ClientExecStart
  \/ ClientAggregate
  \/ ClientCount
  \/ ClientPage
  \/ ClientFinally
  \/ ClientRouteRespond

SpecPage == InitPage /\ [][NextPage]_vars

(***************************************************************************)
(* Aggregate and paginated statements through lib/db-client.ts             *)
(***************************************************************************)

\* statements around the aggregate pattern: the words, in either case, as
\* names, inside longer names, and GROUP BY with several kinds of whitespace
AggregateQueries ==
  {"select count(*) from t",
   "SELECT SUM(a), AVG(a) FROM t;",
   "select min from t",
   "select a from t group \n by a",
   "select a from t GROUP BY a",
   "select maximum from t",
   "select max_id, id_min, counts from t",
   "select a from groups order by a",
   "select a from t group\\by",
   FENCE \o "sql\nselect * from t\n" \o FENCE,
   "delete from t where id = (select max(id) from t)"}

\* any page of a result of no rows, a few rows or more than one page
InitAggregate ==
  /\ query \in AggregateQueries
  /\ ctes = << >>
  /\ page \in 0..MaxPage
  /\ dbRows \in {0, MaxExtraRows, DEFAULT_PAGE_SIZE + MaxExtraRows}
  /\ Idle
  /\ PipeIdle
  /\ AuxIdle

NextAggregate ==
  \/ ClientRouteRequest
  \/ ClientExecStart
  \/ ClientAggregate
  \/ ClientCount
  \/ ClientPage
  \/ ClientFinally
  \/ ClientRouteRespond

SpecAggregate == InitAggregate /\ [][NextAggregate]_vars

(***************************************************************************)
(* Two requests served concurrently: the pools their statements go to      *)
(* (lib/db.ts module-level pool against lib/db-client.ts local pool)       *)
(***************************************************************************)

\* the two requests; request r carries dbConfig r and llmConfig r, and a pool
\* or an LLM client is named by the request whose config it was built from
Procs == {1, 2}

\* POST over lib/db.ts (route.ts lines 5-43), POST paging on the pool that
\* initializeDatabase returns, POST over lib/db-client.ts
PoolRoutes == {"legacy", "paged", "client"}

\* a request that has not started
NewProc(rt) == [route |-> rt, pc |-> "start", pool |-> 0, sent |-> << >>]

\* one statement handed to a pool
Sent(k, p) == [kind |-> k, pool |-> p]

\* lib/db.ts line 14 and 18: pool = new Pool(config), then pool.connect() is
\* awaited
InitializeDatabaseStart ==
  \E r \in DOMAIN procs :
    /\ procs[r].route \in {"legacy", "paged"}
    /\ procs[r].pc = "start"
    /\ dbPool' = r
    /\ procs' = [procs EXCEPT ![r].pc = "connect"]
    /\ UNCHANGED << exceptConcurrent, llm, llmLog >>

\* lib/db.ts lines 18-21: the client of the request's own pool is connected
\* and the first SET is sent on it; a connection failure is rethrown
InitializeDatabaseConnected ==
  \E r \in DOMAIN procs :
    /\ procs[r].pc = "connect"
    /\ \/ procs' = [procs EXCEPT ![r].pc = "set_read_only",
                                 ![r].sent = Append(@, Sent("set", r))]
       \/ procs' = [procs EXCEPT ![r].pc = "done"]
    /\ UNCHANGED << exceptConcurrent, dbPool, llm, llmLog >>

\* lib/db.ts line 23: the second SET on the same client
InitializeDatabaseTimeout ==
  \E r \in DOMAIN procs :
    /\ procs[r].pc = "set_read_only"
    /\ procs' = [procs EXCEPT ![r].pc = "set_timeout",
                              ![r].sent = Append(@, Sent("set", r))]
    /\ UNCHANGED << exceptConcurrent, dbPool, llm, llmLog >>

\* lib/db.ts line 24 returns the module-level pool as it is now; route.ts
\* line 16 calls executeQuery, whose getPool() (lib/db.ts line 69) reads it
\* too, and the statement is sent on it (line 150)
LegacyExecuteQuery ==
  \E r \in DOMAIN procs :
    /\ procs[r].route = "legacy"
    /\ procs[r].pc = "set_timeout"
    /\ procs' = [procs EXCEPT ![r].pc = "query",
                              ![r].pool = dbPool,
                              ![r].sent = Append(@, Sent("user", dbPool))]
    /\ UNCHANGED << exceptConcurrent, dbPool, llm, llmLog >>

\* the paging route keeps what initializeDatabase returned and sends the
\* count query on it
PagedCountQuery ==
  \E r \in DOMAIN procs :
    /\ procs[r].route = "paged"
    /\ procs[r].pc = "set_timeout"
    /\ procs' = [procs EXCEPT ![r].pc = "count",
                              ![r].pool = dbPool,
                              ![r].sent = Append(@, Sent("user", dbPool))]
    /\ UNCHANGED << exceptConcurrent, dbPool, llm, llmLog >>

\* lib/db-client.ts lines 11 and 98: a pool of the call's own, and the first
\* query on it
ClientPoolCountQuery ==
  \E r \in DOMAIN procs :
    /\ procs[r].route = "client"
    /\ procs[r].pc = "start"
    /\ procs' = [procs EXCEPT ![r].pc = "count",
                              ![r].pool = r,
                              ![r].sent = Append(@, Sent("user", r))]
    /\ UNCHANGED << exceptConcurrent, dbPool, llm, llmLog >>

\* the page query, on the pool the request holds in its local constant
LocalPoolPageQuery ==
  \E r \in DOMAIN procs :
    /\ procs[r].pc = "count"
    /\ procs' = [procs EXCEPT ![r].pc = "query",
                              ![r].sent = Append(@, Sent("user", procs[r].pool))]
    /\ UNCHANGED << exceptConcurrent, dbPool, llm, llmLog >>

\* the response
PoolRequestDone ==
  \E r \in DOMAIN procs :
    /\ procs[r].pc = "query"
    /\ procs' = [procs EXCEPT ![r].pc = "done"]
    /\ UNCHANGED << exceptConcurrent, dbPool, llm, llmLog >>

\* two requests, each on any of the routes, none started
InitPools ==
  /\ query = "select * from t"
  /\ ctes = << >>
  /\ page = 1
  /\ dbRows = 1
  /\ Idle
  /\ PipeIdle
  /\ procs \in [Procs -> {NewProc(rt) : rt \in PoolRoutes}]
  /\ dbPool = 0
  /\ llm = 0
  /\ llmLog = << >>
  /\ InputsIdle
  /\ CacheIdle
  /\ ContextIdle
  /\ SuggestIdle
  /\ FetchIdle
  /\ RelevanceIdle
  /\ UiIdle
  /\ FormIdle

NextPools ==
  \/ InitializeDatabaseStart
  \/ InitializeDatabaseConnected
  \/ InitializeDatabaseTimeout
  \/ LegacyExecuteQuery
  \/ PagedCountQuery
  \/ ClientPoolCountQuery
  \/ LocalPoolPageQuery
  \/ PoolRequestDone

SpecPools == InitPools /\ [][NextPools]_vars

(***************************************************************************)
(* lib/llm.ts identifyRequiredInputs: validation of the parsed completion  *)
(***************************************************************************)

\* elements of the parsed array
MaxInputs == 2

\* JSON values of a field: missing, a string, a number (by its decimal text)
Undefined == [t |-> "undefined", v |-> ""]
Str(s) == [t |-> "string", v |-> s]
Num(s) == [t |-> "number", v |-> s]

\* !value for a field value
IsFalsy(x) == x = Undefined \/ x = Str("") \/ x = Num("0")

InputFields == {"name", "description", "type", "example"}

\* /^\d{4}-\d{2}-\d{2}$/.test(example), the example turned into text
IsDateFormat(x) ==
  /\ Len(x.v) = 10
  /\ \A i \in {1, 2, 3, 4, 6, 7, 9, 10} : CharAt(x.v, i) \in DigitSet
  /\ CharAt(x.v, 5) = "-"
  /\ CharAt(x.v, 8) = "-"

InputTypes == {Str("text"), Str("number"), Str("date")}

MissingFieldsError(index) ==
  "Input at index " \o NumToString(index) \o " is missing required fields"

InvalidTypeError(input) ==
  "Invalid type \"" \o input.type.v \o "\" for input \"" \o input.name.v \o "\""

DateFormatError(input) ==
  "Invalid date format for input \"" \o input.name.v \o "\". Expected YYYY-MM-DD"

InvalidJsonError == "Invalid JSON response from LLM"

NotArrayError == "Invalid response format from LLM: expected an array of inputs"

\* lines 158-174: the checks on one element, "" when it passes
ValidateInput(input, index) ==
  IF \E f \in InputFields : IsFalsy(input[f]) THEN MissingFieldsError(index)
  ELSE IF input.type \notin InputTypes THEN InvalidTypeError(input)
  ELSE IF input.type = Str("date") /\ ~IsDateFormat(input.example) THEN DateFormatError(input)
  ELSE ""

RECURSIVE MutValidateInputs(_, _)
\* the elements checked from the last to the first
MutValidateInputs(items, i) ==
  IF i > Len(items) THEN ""
  ELSE LET k == Len(items) + 1 - i
           err == ValidateInput(items[k], k - 1)
       IN  IF err # "" THEN err ELSE MutValidateInputs(items, i + 1)

RECURSIVE ValidateInputs(_, _)
\* line 157: parsedInputs.forEach, from element i on; the first error is thrown
ValidateInputs(items, i) ==
  IF i > Len(items) THEN ""
  ELSE LET err == ValidateInput(items[i], i - 1)
       IN  IF err # "" THEN err ELSE ValidateInputs(items, i + 1)

\* well-formed elements of each type
ValidInputs ==
  { [name |-> Str("start_date"), description |-> Str("Start date"),
     type |-> Str("date"), example |-> Str("2024-01-15")],
    [name |-> Str("status"), description |-> Str("Order status"),
     type |-> Str("text"), example |-> Str("shipped")],
    [name |-> Str("limit"), description |-> Str("Row limit"),
     type |-> Str("number"), example |-> Num("42")] }

\* a well-formed element with one field missing or empty
FieldDefects ==
  { [b EXCEPT ![f] = x] : b \in ValidInputs, f \in InputFields, x \in {Undefined, Str("")} }

\* a type outside the list, an example that is not a date, a number example 0
OtherDefects ==
  { [b EXCEPT !.type = Str(ty)] : b \in ValidInputs, ty \in {"datetime", "Date"} }
  \cup { [name |-> Str("start_date"), description |-> Str("Start date"),
          type |-> Str("date"), example |-> x] :
         x \in {Str("2024-1-5"), Str("15/01/2024"), Str("2024-01-15\n"),
                Str("2024-13-45"), Num("20240115")} }
  \cup { [name |-> Str("limit"), description |-> Str("Row limit"),
          type |-> Str("number"), example |-> Num("0")] }

InputElements == ValidInputs \cup FieldDefects \cup OtherDefects

\* completions: text JSON.parse refuses, JSON that is no array, arrays
LlmAnswers ==
  { [kind |-> "unparsable", items |-> << >>], [kind |-> "object", items |-> << >>] }
  \cup { [kind |-> "array", items |-> l] :
         l \in UNION { [1..n -> InputElements] : n \in 0..MaxInputs } }

\* lines 147-184
IdentifyRequiredInputs ==
  /\ identified.status = "none"
  /\ identified' =
       IF llmAnswer.kind = "unparsable"
         THEN [status |-> "error", error |-> InvalidJsonError, value |-> << >>]
       ELSE IF llmAnswer.kind # "array"
         THEN [status |-> "error", error |-> NotArrayError, value |-> << >>]
       ELSE IF ValidateInputs(llmAnswer.items, 1) # ""
         THEN [status |-> "error", error |-> ValidateInputs(llmAnswer.items, 1),
               value |-> << >>]
       ELSE [status |-> "ok", error |-> "", value |-> llmAnswer.items]
  /\ UNCHANGED << exceptInputs, llmAnswer >>

InitInputs ==
  /\ query = ""
  /\ ctes = << >>
  /\ page = 1
  /\ dbRows = 1
  /\ Idle
  /\ PipeIdle
  /\ ConcurrentIdle
  /\ llmAnswer \in LlmAnswers
  /\ identified = [status |-> "none", error |-> "", value |-> << >>]
  /\ CacheIdle
  /\ ContextIdle
  /\ SuggestIdle
  /\ FetchIdle
  /\ RelevanceIdle
  /\ UiIdle
  /\ FormIdle

NextInputs == IdentifyRequiredInputs

SpecInputs == InitInputs /\ [][NextInputs]_vars

(***************************************************************************)
(* lib/schema-cache.ts                                                     *)
(***************************************************************************)

\* the clock is observed around each multiple of the expiry time, up to
\* this multiple
MaxExpiries == 2

\* line 11
CACHE_EXPIRY_MS == 5 * 60 * 1000

\* connection configs: two that differ in the password only, and two whose
\* database and user names run together to the same text
CacheConfigs ==
  { [host |-> "db", port |-> 5432, database |-> "shop", user |-> "app", password |-> "p1"],
    [host |-> "db", port |-> 5432, database |-> "shop", user |-> "app", password |-> "p2"],
    [host |-> "db", port |-> 5432, database |-> "shop/eu", user |-> "app", password |-> "p1"],
    [host |-> "db", port |-> 5432, database |-> "shop", user |-> "eu/app", password |-> "p1"] }

Schemas == {"schema1", "schema2"}

\* lines 14-17
getCacheKey(dbConfig) ==
  dbConfig.host \o ":" \o NumToString(dbConfig.port) \o "/" \o dbConfig.database
    \o "/" \o dbConfig.user

\* instants at which calls are made
ClockValues ==
  { t \in { k * CACHE_EXPIRY_MS + j : k \in 0..MaxExpiries, j \in {-1, 0, 1} } : t >= 0 }

\* delete object[key]
Delete(object, key) == [k \in DOMAIN object \ {key} |-> object[k]]

\* object[key] = value
Assign(object, key, value) ==
  [k \in DOMAIN object \cup {key} |-> IF k = key THEN value ELSE object[k]]

\* the lookup with the expiry test turned into >=
MutGetCachedSchema ==
  \E dbConfig \in CacheConfigs :
    LET key == getCacheKey(dbConfig)
    IN  /\ IF key \notin DOMAIN schemaCache
             THEN /\ lookup' = [key |-> key, at |-> now, result |-> "null"]
                  /\ schemaCache' = schemaCache
           ELSE IF now >= schemaCache[key].expiresAt
             THEN /\ lookup' = [key |-> key, at |-> now, result |-> "null"]
                  /\ schemaCache' = Delete(schemaCache, key)
           ELSE /\ lookup' = [key |-> key, at |-> now, result |-> schemaCache[key].schema]
                /\ schemaCache' = schemaCache
        /\ UNCHANGED << exceptCache, now, lastWrite >>

\* lines 19-32
getCachedSchema ==
  \E dbConfig \in CacheConfigs :
    LET key == getCacheKey(dbConfig)
    IN  /\ IF key \notin DOMAIN schemaCache
             THEN /\ lookup' = [key |-> key, at |-> now, result |-> "null"]
                  /\ schemaCache' = schemaCache
           ELSE IF now > schemaCache[key].expiresAt
             THEN /\ lookup' = [key |-> key, at |-> now, result |-> "null"]
                  /\ schemaCache' = Delete(schemaCache, key)
           ELSE /\ lookup' = [key |-> key, at |-> now, result |-> schemaCache[key].schema]
                /\ schemaCache' = schemaCache
        /\ UNCHANGED << exceptCache, now, lastWrite >>

\* lines 34-43
cacheSchema ==
  \E dbConfig \in CacheConfigs, schema \in Schemas :
    LET key == getCacheKey(dbConfig)
    IN  /\ schemaCache' = Assign(schemaCache, key,
                                 [schema |-> schema, timestamp |-> now,
                                  expiresAt |-> now + CACHE_EXPIRY_MS])
        /\ lastWrite' = Assign(lastWrite, key, [schema |-> schema, at |-> now])
        /\ UNCHANGED << exceptCache, now, lookup >>

\* lines 45-48
invalidateCache ==
  \E dbConfig \in CacheConfigs :
    LET key == getCacheKey(dbConfig)
    IN  /\ schemaCache' = Delete(schemaCache, key)
        /\ lastWrite' = Delete(lastWrite, key)
        /\ UNCHANGED << exceptCache, now, lookup >>

\* time passes between calls
ClockAdvance ==
  /\ \E t \in ClockValues :
       /\ t > now
       /\ now' = t
  /\ UNCHANGED << exceptCache, schemaCache, lastWrite, lookup >>

InitCache ==
  /\ query = ""
  /\ ctes = << >>
  /\ page = 1
  /\ dbRows = 1
  /\ Idle
  /\ PipeIdle
  /\ ConcurrentIdle
  /\ InputsIdle
  /\ CacheIdle
  /\ ContextIdle
  /\ SuggestIdle
  /\ FetchIdle
  /\ RelevanceIdle
  /\ UiIdle
  /\ FormIdle

NextCache ==
  \/ getCachedSchema
  \/ cacheSchema
  \/ invalidateCache
  \/ ClockAdvance

SpecCache == InitCache /\ [][NextCache]_vars

(***************************************************************************)
(* lib/chatHistory.ts ContextManager: the recent queries                   *)
(***************************************************************************)

\* addQueryToContext calls made on one manager
MaxAdds == 11

\* line 173
MAX_RECENT_QUERIES == 10

\* this.context = null
NullContext ==
  [initialised |-> FALSE, recentQueries |-> << >>, relatedTables |-> {},
   commonPatterns |-> {}]

\* an attempt that succeeded, with its statement over one table, and one
\* that failed before any SQL was there; n stands for what tells the calls
\* apart (query text and timestamp)
Attempts(n) ==
  { [id |-> n, success |-> TRUE, tables |-> {"orders"}],
    [id |-> n, success |-> FALSE, tables |-> {}] }

\* lines 181-192
ContextInitialize ==
  /\ context' = [NullContext EXCEPT !.initialised = TRUE]
  /\ attempted' = << >>
  /\ UNCHANGED << exceptContext, added >>

\* the addition that evicts from the head when the list is full
MutAddQueryToContext ==
  /\ added < MaxAdds
  /\ added' = added + 1
  /\ \E a \in Attempts(added + 1) :
       IF ~context.initialised
         THEN UNCHANGED << context, attempted >>
         ELSE /\ context' =
                   [context EXCEPT
                      !.recentQueries =
                         IF Len(<< a >> \o @) > MAX_RECENT_QUERIES
                           THEN Tail(<< a >> \o @)
                           ELSE << a >> \o @,
                      !.relatedTables = @ \cup a.tables,
                      !.commonPatterns = @ \cup a.tables]
              /\ attempted' = << a >> \o attempted
  /\ UNCHANGED exceptContext

\* lines 389-464: unshift, then pop when the list got longer than the
\* maximum, then the tables of the statement are noted
addQueryToContext ==
  /\ added < MaxAdds
  /\ added' = added + 1
  /\ \E a \in Attempts(added + 1) :
       IF ~context.initialised
         THEN UNCHANGED << context, attempted >>
         ELSE /\ context' =
                   [context EXCEPT
                      !.recentQueries =
                         IF Len(<< a >> \o @) > MAX_RECENT_QUERIES
                           THEN SubSeq(<< a >> \o @, 1, Len(@))
                           ELSE << a >> \o @,
                      !.relatedTables = @ \cup a.tables,
                      !.commonPatterns = @ \cup a.tables]
              /\ attempted' = << a >> \o attempted
  /\ UNCHANGED exceptContext

\* lines 466-468
ContextClear ==
  /\ context' = NullContext
  /\ attempted' = << >>
  /\ UNCHANGED << exceptContext, added >>

InitContext ==
  /\ query = ""
  /\ ctes = << >>
  /\ page = 1
  /\ dbRows = 1
  /\ Idle
  /\ PipeIdle
  /\ ConcurrentIdle
  /\ InputsIdle
  /\ CacheIdle
  /\ ContextIdle
  /\ SuggestIdle
  /\ FetchIdle
  /\ RelevanceIdle
  /\ UiIdle
  /\ FormIdle

NextContext ==
  \/ ContextInitialize
  \/ addQueryToContext
  \/ ContextClear

SpecContext == InitContext /\ [][NextContext]_vars

(***************************************************************************)
(* Two POST /query requests served concurrently: the module-level llm of   *)
(* lib/llm.ts                                                              *)
(***************************************************************************)

\* initializeLLM of request r built a client from llmConfig r
LlmInit(r) == [req |-> r, op |-> "initializeLLM", client |-> r]

\* request r made the call fn through the client c
LlmCall(r, fn, c) == [req |-> r, op |-> fn, client |-> c]

\* the pipeline functions that invoke the model, and where the request waits
\* while each runs
LlmWaits ==
  [analyzeQueryType |-> "analyze", generateSchemaExplanation |-> "answer",
   identifyRequiredInputs |-> "answer", generateSQLQuery |-> "generate",
   validateQueryResult |-> "answer", getSuggestionForError |-> "answer"]

\* a call through a client kept by the request itself
MutCallLlm(r, fn) ==
  /\ llmLog' = Append(llmLog, LlmCall(r, fn, r))
  /\ procs' = [procs EXCEPT ![r].pc = LlmWaits[fn]]
  /\ UNCHANGED << exceptConcurrent, dbPool, llm >>

\* request r calls fn: the chain is piped onto the module-level llm as it is
\* at the call, and awaited
CallLlm(r, fn) ==
  /\ llmLog' = Append(llmLog, LlmCall(r, fn, llm))
  /\ procs' = [procs EXCEPT ![r].pc = LlmWaits[fn]]
  /\ UNCHANGED << exceptConcurrent, dbPool, llm >>

\* route.ts lines 173-195: the body is read, initializeLLM (lib/llm.ts lines
\* 10-32) assigns the module-level llm, getSchema is awaited
ConcurrentInitializeLLM ==
  \E r \in DOMAIN procs :
    /\ procs[r].route = "query"
    /\ procs[r].pc = "start"
    /\ llm' = r
    /\ llmLog' = Append(llmLog, LlmInit(r))
    /\ procs' = [procs EXCEPT ![r].pc = "schema"]
    /\ UNCHANGED << exceptConcurrent, dbPool >>

\* route.ts line 205; a failed schema fetch goes to the inner catch
ConcurrentAnalyze ==
  \E r \in DOMAIN procs :
    /\ procs[r].pc = "schema"
    /\ \/ CallLlm(r, "analyzeQueryType")
       \/ CallLlm(r, "getSuggestionForError")

\* route.ts lines 208-227: the branch after the classifier's answer, or the
\* inner catch after its failure
ConcurrentBranch ==
  \E r \in DOMAIN procs :
    /\ procs[r].pc = "analyze"
    /\ \/ CallLlm(r, "generateSchemaExplanation")
       \/ CallLlm(r, "identifyRequiredInputs")
       \/ CallLlm(r, "generateSQLQuery")
       \/ CallLlm(r, "getSuggestionForError")

\* route.ts lines 230-236: executeQuery is awaited, or the sentinel or a
\* failed generation goes to the inner catch
ConcurrentExecute ==
  \E r \in DOMAIN procs :
    /\ procs[r].pc = "generate"
    /\ \/ /\ procs' = [procs EXCEPT ![r].pc = "execute"]
          /\ UNCHANGED << exceptConcurrent, dbPool, llm, llmLog >>
       \/ CallLlm(r, "getSuggestionForError")

\* route.ts lines 239-247 and 258-268: validation of the result, or the
\* inner catch after a failed execution
ConcurrentValidate ==
  \E r \in DOMAIN procs :
    /\ procs[r].pc = "execute"
    /\ \/ CallLlm(r, "validateQueryResult")
       \/ CallLlm(r, "getSuggestionForError")

\* the response; a failure of explanation or input elicitation asks for a
\* suggestion first
ConcurrentRespond ==
  \E r \in DOMAIN procs :
    /\ procs[r].pc = "answer"
    /\ \/ /\ procs' = [procs EXCEPT ![r].pc = "done"]
          /\ UNCHANGED << exceptConcurrent, dbPool, llm, llmLog >>
       \/ /\ llmLog[Len(llmLog)].req = r
          /\ llmLog[Len(llmLog)].op \in {"generateSchemaExplanation", "identifyRequiredInputs"}
          /\ CallLlm(r, "getSuggestionForError")

\* two POST /query requests, none started
InitLlm ==
  /\ query = ""
  /\ ctes = << >>
  /\ page = 1
  /\ dbRows = 1
  /\ Idle
  /\ PipeIdle
  /\ procs = [r \in Procs |-> NewProc("query")]
  /\ dbPool = 0
  /\ llm = 0
  /\ llmLog = << >>
  /\ InputsIdle
  /\ CacheIdle
  /\ ContextIdle
  /\ SuggestIdle
  /\ FetchIdle
  /\ RelevanceIdle
  /\ UiIdle
  /\ FormIdle

NextLlm ==
  \/ ConcurrentInitializeLLM
  \/ ConcurrentAnalyze
  \/ ConcurrentBranch
  \/ ConcurrentExecute
  \/ ConcurrentValidate
  \/ ConcurrentRespond

SpecLlm == InitLlm /\ [][NextLlm]_vars
(***************************************************************************)
(* The inner catch of POST /query in the versions route.ts holds           *)
(***************************************************************************)

\* the POST handlers of route.ts by the line of their declaration: the
\* handler over lib/db.ts, the first handler over lib/db-client.ts, and the
\* handler with pagination
CatchVersions == {"route.ts:5", "route.ts:56", "route.ts:170"}

\* messages query processing may fail with
ProcessingErrors ==
  SchemaFailures \cup LlmFailures \cup
    {WriteError, "relation does not exist", "ERROR: Missing required input: start date"}

\* lib/llm.ts line 341: the completion, trimmed
SuggestionText(raw) == Trim(raw)

\* route.ts lines 26, 136, 258: processing has thrown into the inner catch;
\* line 260 alone replaces an empty message
CatchProcessingError ==
  /\ catchPc = "idle"
  /\ \E v \in CatchVersions, m \in ProcessingErrors :
       /\ catchVersion' = v
       /\ processingError' = IF v = "route.ts:170" /\ m = "" THEN InnerFallbackError ELSE m
  /\ catchPc' = "suggest"
  /\ UNCHANGED << suggestionCall, suggestionResult, catchResponse >>
  /\ UNCHANGED exceptSuggest

\* route.ts lines 28, 139, 264 with lib/llm.ts lines 320-342: the call
\* answers, or it fails; only lines 263-267 catch the failure, elsewhere it
\* leaves the inner catch for the outer one
CatchGetSuggestion ==
  /\ catchPc = "suggest"
  /\ \/ /\ \E raw \in SuggestionAnswers : suggestionResult' = SuggestionText(raw)
        /\ suggestionCall' = "answered"
        /\ catchPc' = "respond"
     \/ /\ \E m \in LlmFailures : suggestionResult' = m
        /\ suggestionCall' = "failed"
        /\ catchPc' = IF catchVersion = "route.ts:170" THEN "respond" ELSE "outer"
  /\ UNCHANGED << catchVersion, processingError, catchResponse >>
  /\ UNCHANGED exceptSuggest

\* route.ts lines 30-34 and 142-146: the suggestion as it came;
\* lines 261-273: '' when the call failed, and 'No suggestion available' in
\* place of an empty one
CatchRespond ==
  /\ catchPc = "respond"
  /\ LET suggestion == IF suggestionCall = "failed" THEN "" ELSE suggestionResult
     IN  catchResponse' =
           FailureResponse(processingError,
             IF catchVersion = "route.ts:170" /\ suggestion = ""
               THEN NoSuggestion ELSE suggestion)
  /\ catchPc' = "responded"
  /\ UNCHANGED << catchVersion, processingError, suggestionCall, suggestionResult >>
  /\ UNCHANGED exceptSuggest

\* route.ts lines 36-42 and 148-153: the outer catch answers with the message
\* of the error that reached it
CatchOuter ==
  /\ catchPc = "outer"
  /\ catchResponse' = ErrorResponse(500, suggestionResult)
  /\ catchPc' = "responded"
  /\ UNCHANGED << catchVersion, processingError, suggestionCall, suggestionResult >>
  /\ UNCHANGED exceptSuggest

\* the next failing request
CatchNextRequest ==
  /\ catchPc = "responded"
  /\ catchPc' = "idle"
  /\ catchVersion' = "none"
  /\ processingError' = ""
  /\ suggestionCall' = "none"
  /\ suggestionResult' = ""
  /\ catchResponse' = NoResponse
  /\ UNCHANGED exceptSuggest

InitSuggest ==
  /\ query = ""
  /\ ctes = << >>
  /\ page = 1
  /\ dbRows = 0
  /\ Idle
  /\ PipeIdle
  /\ AuxIdle

NextSuggest ==
  \/ CatchProcessingError
  \/ CatchGetSuggestion
  \/ CatchRespond
  \/ CatchOuter
  \/ CatchNextRequest

SpecSuggest == InitSuggest /\ [][NextSuggest]_vars

(***************************************************************************)
(* Schema fetches and connection tests: catalog queries and pools          *)
(***************************************************************************)

\* requests served one after the other
MaxFetches == 3

\* the code that serves a request: POST /query/schema, POST
\* /query/test-connection, and getSchema of lib/db-client.ts as POST /query
\* calls it
FetchRoutes == {"schema", "test-connection", "getSchema"}

\* two configs of one connection identity and one of another
FetchConfigs ==
  { c \in CacheConfigs : c.user = "app" /\ (c.password = "p1" \/ c.database = "shop") }

\* a request arrives
FetchRequest ==
  /\ fetchPc = "idle"
  /\ fetched < MaxFetches
  /\ \E r \in FetchRoutes, c \in FetchConfigs :
       /\ fetchRoute' = r
       /\ fetchConfig' = c
  /\ fetchPc' = "start"
  /\ fetchAnswer' = "none"
  /\ UNCHANGED << fetched, openPools, catalogSent, lastIntrospection >>
  /\ UNCHANGED << exceptFetch >>

\* schema/route.ts line 8 and test-connection/route.ts line 9 with lib/db.ts
\* lines 13-32: a pool is created, then the connection and the SET statements
\* succeed or fail; the pool is ended on neither path
RouteInitializeDatabase ==
  /\ fetchPc = "start"
  /\ fetchRoute \in {"schema", "test-connection"}
  /\ openPools' = openPools + 1
  /\ \/ /\ fetchPc' = IF fetchRoute = "schema" THEN "query" ELSE "answer"
        /\ fetchAnswer' = IF fetchRoute = "schema" THEN fetchAnswer ELSE "ok"
     \/ /\ fetchPc' = "answer"
        /\ fetchAnswer' = "error"
  /\ UNCHANGED << fetchRoute, fetchConfig, fetched, catalogSent, lastIntrospection >>
  /\ UNCHANGED << exceptFetch >>

\* lib/db-client.ts line 151
GetSchemaCreatePool ==
  /\ fetchPc = "start"
  /\ fetchRoute = "getSchema"
  /\ openPools' = openPools + 1
  /\ fetchPc' = "query"
  /\ UNCHANGED << fetchRoute, fetchConfig, fetched, catalogSent, lastIntrospection, fetchAnswer >>
  /\ UNCHANGED << exceptFetch >>

\* the catalog query goes to the database at the present time
SendCatalogQuery ==
  LET key == getCacheKey(fetchConfig)
  IN  /\ catalogSent' = [n    |-> catalogSent.n + 1,
                         key  |-> key,
                         at   |-> now,
                         prev |-> IF key \in DOMAIN lastIntrospection
                                    THEN lastIntrospection[key] ELSE -1]
      /\ \/ /\ fetchAnswer' = "ok"
            /\ lastIntrospection' = Assign(lastIntrospection, key, now)
         \/ /\ fetchAnswer' = "error"
            /\ lastIntrospection' = lastIntrospection

\* schema/route.ts lines 10-164: the catalog query on the pool of
\* initializeDatabase, then the answer
SchemaRouteQuery ==
  /\ fetchPc = "query"
  /\ fetchRoute = "schema"
  /\ SendCatalogQuery
  /\ fetchPc' = "answer"
  /\ UNCHANGED << fetchRoute, fetchConfig, fetched, openPools >>
  /\ UNCHANGED << exceptFetch >>

\* lib/db-client.ts lines 153-307: the catalog query, and pool.end() after it
\* when it succeeded
GetSchemaQuery ==
  /\ fetchPc = "query"
  /\ fetchRoute = "getSchema"
  /\ SendCatalogQuery
  /\ openPools' = IF fetchAnswer' = "ok" THEN openPools - 1 ELSE openPools
  /\ fetchPc' = "answer"
  /\ UNCHANGED << fetchRoute, fetchConfig, fetched >>
  /\ UNCHANGED << exceptFetch >>

\* the response is sent, or getSchema has returned or thrown
FetchAnswered ==
  /\ fetchPc = "answer"
  /\ fetchPc' = "idle"
  /\ fetched' = fetched + 1
  /\ UNCHANGED << fetchRoute, fetchConfig, openPools, catalogSent, lastIntrospection,
                  fetchAnswer >>
  /\ UNCHANGED << exceptFetch >>

\* time passes between and during requests
FetchClockAdvance ==
  /\ fetched < MaxFetches
  /\ ClockAdvance

InitFetch ==
  /\ query = ""
  /\ ctes = << >>
  /\ page = 1
  /\ dbRows = 1
  /\ Idle
  /\ PipeIdle
  /\ AuxIdle

NextFetch ==
  \/ FetchRequest
  \/ RouteInitializeDatabase
  \/ GetSchemaCreatePool
  \/ SchemaRouteQuery
  \/ GetSchemaQuery
  \/ FetchAnswered
  \/ FetchClockAdvance

SpecFetch == InitFetch /\ [][NextFetch]_vars

(***************************************************************************)
(* lib/chatHistory.ts ContextManager.findRelevantPreviousContext           *)
(***************************************************************************)

\* prior queries in recentQueries
MaxPrevQueries == 2

\* line 241: 1000 * 60 * 60
HOUR_MS == 1000 * 60 * 60

\* scores are kept as whole numbers: the score of line 242 times ScoreUnit
ScoreUnit == 2 * HOUR_MS

\* s.split(/\s+/) as a set: the runs of other characters between whitespace,
\* and the empty string when s is empty or begins or ends with whitespace
SplitWhitespace(s) ==
  LET solid(i) == CharAt(s, i) \notin Whitespace
      isRun(i, j) ==
        /\ i <= j
        /\ \A k \in i..j : solid(k)
        /\ (i = 1 \/ ~solid(i - 1))
        /\ (j = Len(s) \/ ~solid(j + 1))
  IN  { Sub(s, i, j) : << i, j >> \in { p \in (1..Len(s)) \X (1..Len(s)) : isRun(p[1], p[2]) } }
        \cup (IF Len(s) = 0 \/ ~solid(1) \/ ~solid(Len(s)) THEN {""} ELSE {})

\* the end of the run of whitespace that begins at i (i - 1 when there is none)
SpaceRunEnd(s, i) ==
  SetMax({i - 1} \cup { j \in i..Len(s) : \A k \in i..j : CharAt(s, k) \in Whitespace })

\* the end of the run of \w characters that begins at i
WordRunEnd(s, i) ==
  SetMax({i - 1} \cup { j \in i..Len(s) : \A k \in i..j : CharAt(s, k) \in WordChars })

\* /FROM\s+(\w+)|JOIN\s+(\w+)/i matches at position i
TableMatchAt(s, i) ==
  /\ ToLowerCase(Sub(s, i, i + 3)) \in {"from", "join"}
  /\ SpaceRunEnd(s, i + 4) >= i + 4
  /\ WordRunEnd(s, SpaceRunEnd(s, i + 4) + 1) > SpaceRunEnd(s, i + 4)

RECURSIVE TableNamesFrom(_, _)
\* the matches of the global expression from position i on, left to right,
\* each without its keyword and whitespace
TableNamesFrom(s, i) ==
  IF i > Len(s) THEN {}
  ELSE IF TableMatchAt(s, i)
    THEN LET b == SpaceRunEnd(s, i + 4) + 1
             z == WordRunEnd(s, b)
         IN  {Sub(s, b, z)} \cup TableNamesFrom(s, z + 1)
  ELSE TableNamesFrom(s, i + 1)

\* lines 195-198
extractTableNames(text) == TableNamesFrom(text, 1)

NaturalQueries == {"orders from customers", "Show orders", " list users"}

\* texts of prior queries, in either case and with trailing whitespace
PrevTexts == {"show ORDERS", "orders list "}

\* lines 215 and 220 for the texts in play: new Set(text.toLowerCase().split(/\s+/))
WordSets ==
  [ text \in NaturalQueries \cup PrevTexts |-> SplitWhitespace(ToLowerCase(text)) ]

\* line 229 for the current queries in play
CurrentTables == [ text \in NaturalQueries |-> extractTableNames(text) ]

\* lines 221-225: the words of the current query that the prior query has
WordOverlap(current, prev) ==
  Cardinality(WordSets[current] \cap WordSets[prev.query])

\* lines 228-232: the tables named in the current query that the prior query used
TableOverlap(current, prev) ==
  Cardinality(CurrentTables[current] \cap prev.tables)

\* the score with the boost for success given to the failed queries
MutScore(current, prev, t) ==
  LET recency == HOUR_MS - (t - prev.timestamp)
  IN  (WordOverlap(current, prev) + 2 * TableOverlap(current, prev))
        * (IF prev.success THEN 2 ELSE 3)
        * (HOUR_MS + IF recency > 0 THEN recency ELSE 0)

\* lines 219-242, times ScoreUnit: word overlap plus twice the table
\* overlap, times 1.5 for a successful query, times 1 + max(0, recencyBoost)
Score(current, prev, t) ==
  LET recency == HOUR_MS - (t - prev.timestamp)
  IN  (WordOverlap(current, prev) + 2 * TableOverlap(current, prev))
        * (IF prev.success THEN 3 ELSE 2)
        * (HOUR_MS + IF recency > 0 THEN recency ELSE 0)

\* the instant of the call
CallTime == 2 * HOUR_MS

\* prior queries: with and without a table, failed and successful, two
\* hours, half an hour, a millisecond old
PrevQueries ==
  [ query     : PrevTexts,
    tables    : {{}, {"customers"}},
    success   : BOOLEAN,
    timestamp : {0, CallTime - HOUR_MS \div 2, CallTime - 1} ]

PrevLists ==
  UNION { [1..n -> PrevQueries] : n \in 0..MaxPrevQueries }

\* line 213: the call, and the early return without a context or without
\* prior queries
FindStart ==
  /\ findPc = "idle"
  /\ \E q \in NaturalQueries, l \in PrevLists, c \in BOOLEAN, d \in {0, 1} :
       /\ naturalQuery' = q
       /\ prevQueries' = IF c THEN l ELSE << >>
       /\ hasContext' = c
       /\ clockStep' = d
       /\ findPc' = IF c /\ Len(l) > 0 THEN "loop" ELSE "returned"
  /\ dateNow' = CallTime
  /\ loopIndex' = 1
  /\ scores' = << >>
  /\ bestMatch' = [index |-> 0, score |-> 0]
  /\ relevant' = 0
  /\ UNCHANGED exceptRelevance

\* the iteration that replaces bestMatch on an equal score too
MutFindIterate ==
  /\ findPc = "loop"
  /\ loopIndex <= Len(prevQueries)
  /\ LET score == Score(naturalQuery, prevQueries[loopIndex], dateNow)
     IN  /\ scores' = Append(scores, [score |-> score, at |-> dateNow])
         /\ bestMatch' = IF bestMatch.index = 0 \/ score >= bestMatch.score
                           THEN [index |-> loopIndex, score |-> score]
                           ELSE bestMatch
  /\ dateNow' = dateNow + clockStep
  /\ loopIndex' = loopIndex + 1
  /\ UNCHANGED << naturalQuery, prevQueries, hasContext, clockStep, relevant, findPc >>
  /\ UNCHANGED exceptRelevance

\* lines 218-246: one iteration of the loop
FindIterate ==
  /\ findPc = "loop"
  /\ loopIndex <= Len(prevQueries)
  /\ LET score == Score(naturalQuery, prevQueries[loopIndex], dateNow)
     IN  /\ scores' = Append(scores, [score |-> score, at |-> dateNow])
         /\ bestMatch' = IF bestMatch.index = 0 \/ score > bestMatch.score
                           THEN [index |-> loopIndex, score |-> score]
                           ELSE bestMatch
  /\ dateNow' = dateNow + clockStep
  /\ loopIndex' = loopIndex + 1
  /\ UNCHANGED << naturalQuery, prevQueries, hasContext, clockStep, relevant, findPc >>
  /\ UNCHANGED exceptRelevance

\* line 249
FindReturn ==
  /\ findPc = "loop"
  /\ loopIndex > Len(prevQueries)
  /\ relevant' = IF bestMatch.index # 0 /\ bestMatch.score > ScoreUnit
                   THEN bestMatch.index ELSE 0
  /\ findPc' = "returned"
  /\ UNCHANGED << naturalQuery, prevQueries, hasContext, clockStep, dateNow, loopIndex,
                  scores, bestMatch >>
  /\ UNCHANGED exceptRelevance

InitRelevance ==
  /\ query = ""
  /\ ctes = << >>
  /\ page = 1
  /\ dbRows = 1
  /\ Idle
  /\ PipeIdle
  /\ AuxIdle

NextRelevance ==
  \/ FindStart
  \/ FindIterate
  \/ FindReturn

SpecRelevance == InitRelevance /\ [][NextRelevance]_vars

(***************************************************************************)
(* The query interface: history, pagination state and page changes         *)
(***************************************************************************)

\* operations of the user in one session
MaxOperations == 4

\* page requests in flight at once
MaxInFlight == 2

\* an item without sqlQuery
NoSql == [id |-> 0, pages |-> 0]

\* a pagination that is null or undefined
NoPaging == [q |-> 0, page |-> 0, totalPages |-> 0]

\* statements by the pages of their result: 0 for an aggregate statement,
\* which the server answers with pagination null
SqlPages == {0, 1, 3}

\* the pagination block the server answers with for page p of a statement;
\* q names the statement it belongs to
Paging(sql, p) ==
  IF sql.pages = 0 THEN NoPaging ELSE [q |-> sql.id, page |-> p, totalPages |-> sql.pages]

\* hasMore of a pagination block
HasMore(pg) == pg.page < pg.totalPages

HistoryItem(t, sql, pg, err) == [type |-> t, sqlQuery |-> sql, pagination |-> pg, error |-> err]

\* an operation other than a page change begins
OtherOperation ==
  /\ operations < MaxOperations
  /\ operations' = operations + 1
  /\ pageRun' = [requested |-> 0, failed |-> FALSE, clean |-> inFlight = {}]

\* lines 264-354: handleSubmit with the answer to its request, which asks
\* for page currentPage
UiHandleSubmit ==
  /\ ~loading
  /\ awaitingInputs = 0
  /\ OtherOperation
  /\ submittedPage' = currentPage
  /\ \/ /\ history' = Append(history, HistoryItem("query", NoSql, NoPaging, TRUE))
        /\ UNCHANGED << pagination, awaitingInputs >>
     \/ /\ awaitingInputs' = operations + 1
        /\ UNCHANGED << history, pagination >>
     \/ \E n \in SqlPages :
          LET sql == [id |-> operations + 1, pages |-> n]
          IN  /\ history' = Append(history,
                              HistoryItem("query", sql, Paging(sql, currentPage), FALSE))
              /\ pagination' = Paging(sql, currentPage)
              /\ awaitingInputs' = awaitingInputs
     \/ /\ history' = Append(history, HistoryItem("explanation", NoSql, NoPaging, FALSE))
        /\ pagination' = NoPaging
        /\ awaitingInputs' = awaitingInputs
  /\ UNCHANGED << currentPage, loading, inFlight >>
  /\ UNCHANGED exceptUi

\* lines 363-422: handleInputSubmit with the answer to its request; the new
\* item has no pagination and the pagination state is not set
UiHandleInputSubmit ==
  /\ ~loading
  /\ awaitingInputs # 0
  /\ OtherOperation
  /\ \/ \E n \in SqlPages :
          /\ history' = Append(history,
                          HistoryItem("query", [id |-> operations + 1, pages |-> n],
                                      NoPaging, FALSE))
          /\ awaitingInputs' = 0
     \/ /\ history' = Append(history, HistoryItem("query", NoSql, NoPaging, TRUE))
        /\ awaitingInputs' = awaitingInputs
  /\ UNCHANGED << pagination, currentPage, loading, inFlight, submittedPage >>
  /\ UNCHANGED exceptUi

\* lines 829-897: the rerun button of an item with sqlQuery and no error;
\* page 1 of its statement is asked for
UiRerun ==
  /\ ~loading
  /\ OtherOperation
  /\ \E i \in 1..Len(history) :
       /\ ~history[i].error
       /\ history[i].sqlQuery # NoSql
       /\ \/ /\ history' = Append(history,
                             HistoryItem("query", history[i].sqlQuery,
                                         Paging(history[i].sqlQuery, 1), FALSE))
             /\ pagination' = Paging(history[i].sqlQuery, 1)
          \/ /\ history' = Append(history,
                             HistoryItem("query", history[i].sqlQuery, NoPaging, TRUE))
             /\ pagination' = pagination
  /\ UNCHANGED << currentPage, loading, awaitingInputs, inFlight, submittedPage >>
  /\ UNCHANGED exceptUi

\* lines 1239-1306: the Execute SQL button; the item has the typed statement
\* and no pagination, and the pagination state is not set
UiExecuteSql ==
  /\ ~loading
  /\ awaitingInputs = 0
  /\ OtherOperation
  /\ \E n \in SqlPages, err \in BOOLEAN :
       history' = Append(history,
                    HistoryItem("query", [id |-> operations + 1, pages |-> n], NoPaging, err))
  /\ UNCHANGED << pagination, currentPage, loading, awaitingInputs, inFlight, submittedPage >>
  /\ UNCHANGED exceptUi

\* lines 523-540 and 1013-1046: a click on Previous or Next, shown when the
\* pagination state has more than one page; the request carries the
\* sqlQuery of the last history item
UiPageChange ==
  /\ pagination # NoPaging
  /\ pagination.totalPages > 1
  /\ Cardinality(inFlight) < MaxInFlight
  /\ operations < MaxOperations
  /\ operations' = operations + 1
  /\ \E p \in {pagination.page - 1, pagination.page + 1} :
       /\ p = pagination.page - 1 => pagination.page # 1
       /\ p = pagination.page + 1 => HasMore(pagination)
       /\ currentPage' = p
       /\ inFlight' = inFlight \cup
            {[n |-> operations + 1, sql |-> history[Len(history)].sqlQuery, page |-> p]}
       /\ pageRun' =
            [requested |-> pageRun.requested + 1,
             failed    |-> pageRun.failed,
             clean     |-> /\ (inFlight = {} \/ pageRun.clean)
                           /\ history[Len(history)].sqlQuery.id = pagination.q]
  /\ loading' = TRUE
  /\ UNCHANGED << history, pagination, awaitingInputs, submittedPage >>
  /\ UNCHANGED exceptUi

\* lines 542-563: the answer to a page request, whichever arrives; a request
\* without a statement fails
UiPageAnswer ==
  /\ \E r \in inFlight :
       /\ inFlight' = inFlight \ {r}
       /\ \/ /\ r.sql # NoSql
             /\ history' =
                  IF history[Len(history)].type = "query"
                    THEN [history EXCEPT ![Len(history)].pagination = Paging(r.sql, r.page)]
                    ELSE history
             /\ pagination' = Paging(r.sql, r.page)
             /\ pageRun' = pageRun
          \/ /\ UNCHANGED << history, pagination >>
             /\ pageRun' = [pageRun EXCEPT !.failed = TRUE]
  /\ loading' = FALSE
  /\ UNCHANGED << currentPage, awaitingInputs, submittedPage, operations >>
  /\ UNCHANGED exceptUi

InitUi ==
  /\ query = ""
  /\ ctes = << >>
  /\ page = 1
  /\ dbRows = 1
  /\ Idle
  /\ PipeIdle
  /\ AuxIdle

NextUi ==
  \/ UiHandleSubmit
  \/ UiHandleInputSubmit
  \/ UiRerun
  \/ UiExecuteSql
  \/ UiPageChange
  \/ UiPageAnswer

SpecUi == InitUi /\ [][NextUi]_vars

(***************************************************************************)
(* ConfigForm: edits, connection tests and the connect                     *)
(***************************************************************************)

\* steps of the user on the form
MaxFormSteps == 6

\* database settings a user can type: 0 stands for a required field left
\* empty, the others for two different complete settings
DbSettings == {0, 1, 2}

\* no test request in flight; no test answered yet; page.tsx's config null
NoRequest == [settings |-> 0]
NoTest == [settings |-> 0, ok |-> FALSE]
NotConnected == [settings |-> 0, tested |-> NoTest]

\* the form is shown while page.tsx's config is null
FormShown == pageConfig = NotConnected

FormStep ==
  /\ formSteps < MaxFormSteps
  /\ formSteps' = formSteps + 1

\* lines 163-177: handleChange of a database field, at any time, also while
\* a test is in flight
FormHandleChange ==
  /\ FormShown
  /\ FormStep
  /\ \E v \in DbSettings \ {formConfig} : formConfig' = v
  /\ testSuccess' = FALSE
  /\ UNCHANGED << formLoading, testRequest, lastTest, pageConfig >>
  /\ UNCHANGED exceptForm

\* lines 62-83: testConnection up to the fetch; it sends the settings of
\* the render it was called in
SendTestRequest ==
  /\ formLoading' = TRUE
  /\ testSuccess' = FALSE
  /\ testRequest' = [settings |-> formConfig]

\* line 264-265: the Test Connection button
FormTestConnection ==
  /\ FormShown
  /\ ~formLoading
  /\ formConfig # 0
  /\ FormStep
  /\ SendTestRequest
  /\ UNCHANGED << formConfig, lastTest, pageConfig >>
  /\ UNCHANGED exceptForm

\* lines 85-96: the answer to the test request
FormTestAnswered ==
  /\ FormShown
  /\ testRequest # NoRequest
  /\ \E ok \in BOOLEAN :
       /\ testSuccess' = ok
       /\ lastTest' = [settings |-> testRequest.settings, ok |-> ok]
  /\ testRequest' = NoRequest
  /\ formLoading' = FALSE
  /\ UNCHANGED << formConfig, pageConfig, formSteps >>
  /\ UNCHANGED exceptForm

\* lines 99-134 with testSuccess true: onConnect with the settings of the
\* config state; the form is submitted only with its required fields filled
FormHandleSubmit ==
  /\ FormShown
  /\ ~formLoading
  /\ testSuccess
  /\ formConfig # 0
  /\ FormStep
  /\ pageConfig' = [settings |-> formConfig, tested |-> lastTest]
  /\ UNCHANGED << formConfig, formLoading, testSuccess, testRequest, lastTest >>
  /\ UNCHANGED exceptForm

\* lines 102-109: handleSubmit with testSuccess false runs testConnection;
\* after it, the handler still reads the testSuccess of its own render,
\* which is false, and returns
FormHandleSubmitUntested ==
  /\ FormShown
  /\ ~formLoading
  /\ ~testSuccess
  /\ formConfig # 0
  /\ FormStep
  /\ SendTestRequest
  /\ UNCHANGED << formConfig, lastTest, pageConfig >>
  /\ UNCHANGED exceptForm

\* page.tsx lines 34-39: Disconnect shows a new form
FormDisconnect ==
  /\ ~FormShown
  /\ FormStep
  /\ formConfig' = 0
  /\ formLoading' = FALSE
  /\ testSuccess' = FALSE
  /\ testRequest' = NoRequest
  /\ lastTest' = NoTest
  /\ pageConfig' = NotConnected
  /\ UNCHANGED exceptForm

InitForm ==
  /\ query = ""
  /\ ctes = << >>
  /\ page = 1
  /\ dbRows = 1
  /\ Idle
  /\ PipeIdle
  /\ AuxIdle

NextForm ==
  \/ FormHandleChange
  \/ FormTestConnection
  \/ FormTestAnswered
  \/ FormHandleSubmit
  \/ FormHandleSubmitUntested
  \/ FormDisconnect

SpecForm == InitForm /\ [][NextForm]_vars


(***************************************************************************)
(* Properties                                                              *)
(***************************************************************************)

\* the sixteen guarded keywords of the read-only guard's contract
GuardedKeywords ==
  { "delete", "insert", "update", "truncate", "create", "alter", "drop", "grant",
    "revoke", "lock", "vacuum", "copy", "refresh materialized view", "merge",
    "call", "do" }

\* text begins with a guarded keyword followed by a space
StartsWithGuarded(text) == \E k \in GuardedKeywords : StartsWith(text, k \o " ")

\* the statement's first word, after leading whitespace and in any case, is a
\* guarded keyword, whatever follows it
FirstWordIsGuarded(text) ==
  LET n == ToLowerCase(text)
      b == SkipSpace(n, 1)
      rest == Slice(n, b - 1)
  IN  \E k \in GuardedKeywords :
        StartsWith(rest, k) /\ ~IsWordChar(CharAt(rest, Len(k) + 1))

\* an executeQuery of lib/db-client.ts or lib/db.ts has run its guard
GuardRan == guard # "none"

\* C1: every text that, after fence stripping, trailing-semicolon stripping,
\* trimming and lower-casing, starts with a guarded keyword and a space is
\* rejected by executeQuery (of lib/db-client.ts and of lib/db.ts) with the
\* write-operation error; a text that starts with select and holds no
\* "with " is not rejected by the guard.
C1_GuardRejectsKeywordStart ==
  GuardRan =>
    LET n == ClientNormalizedQuery(query)
    IN  /\ StartsWithGuarded(n) =>
             /\ guard = "rejected"
             /\ outcome = Thrown(WriteError)
        /\ (StartsWith(n, "select") /\ IndexOf(n, "with ") = -1) =>
             /\ guard = "passed"
             /\ outcome.error # WriteError

\* C1 witness: lib/db.ts executeQuery has rejected a fenced, upper-case DROP
C1_Witness ==
  /\ entry = "db"
  /\ pc = "d_done"
  /\ guard = "rejected"
  /\ StartsWith(query, FENCE)
  /\ StartsWith(ClientNormalizedQuery(query), "drop ")

\* C2: no statement whose first word is a guarded write keyword has been
\* passed to the driver's query call by any entry point, whatever character
\* follows the keyword.
C2_NoWriteStatementReachesDriver ==
  \A i \in 1..Len(driverCalls) : ~FirstWordIsGuarded(driverCalls[i].text)

\* C3: POST /execute-sql applies the read-only guard: a request whose query
\* starts with a guarded keyword and a space is answered with an error and
\* its text is never passed to client.query.
C3_ExecuteSqlGuarded ==
  (entry = "handler" /\ StartsWithGuarded(ClientNormalizedQuery(query))) =>
    /\ \A i \in 1..Len(driverCalls) : driverCalls[i].text # query
    /\ pc = "responded" => ~response.success

\* the body of a common table expression begins, after optional whitespace,
\* with a guarded keyword and a space
CteBodyWrites(c) == StartsWithGuarded(ToLowerCase(Trim(c.body)))

\* C4: a WITH statement one of whose common table expressions, the first or
\* a later one, has a body that begins with a guarded keyword and a space is
\* rejected by executeQuery.
C4_CteWriteRejected ==
  (GuardRan /\ \E i \in 1..Len(ctes) : CteBodyWrites(ctes[i])) => guard = "rejected"

\* C5: when the guard of lib/db-client.ts executeQuery matches, no statement
\* is sent to the driver during the call (neither the raw, the count nor the
\* page query) and the caller is given the write-operation error.
C5_RejectedBeforeAnyQuery ==
  (entry \in {"client", "query"} /\ guard = "rejected") =>
    /\ driverCalls = << >>
    /\ outcome = Thrown(WriteError)
    /\ (entry = "client" /\ pc = "responded") => response = ErrorResponse(500, WriteError)

\* C5 witness: the route over lib/db-client.ts has answered a rejected
\* request, the pool already ended
C5_Witness ==
  /\ entry = "client"
  /\ guard = "rejected"
  /\ pc = "responded"
  /\ ~poolOpen
  /\ response.error = WriteError

\* C6: in POST /query a generator output that starts with 'ERROR:' is never
\* passed to executeQuery (no statement reaches the driver), and the request
\* ends with a success:false response whose error is the sentinel text.
C6_SentinelNeverExecuted ==
  /\ \A i \in 1..Len(calls) :
       calls[i].fn = "executeQuery" => ~StartsWith(calls[i].arg, "ERROR:")
  /\ StartsWith(sqlQuery, "ERROR:") =>
       /\ ~Called("executeQuery")
       /\ driverCalls = << >>
       /\ guard = "none"
       /\ pc \in {"q_catch", "responded", "idle"}
       /\ pc \in {"responded", "idle"} =>
            /\ ~response.success
            /\ response.error = sqlQuery

\* C6 witness: the completion had leading whitespace before the sentinel and
\* the request has been answered with the sentinel text
C6_Witness ==
  /\ entry = "query"
  /\ pc = "responded"
  /\ StartsWith(sqlQuery, "ERROR:")
  /\ calls[Len(calls) - 1].fn = "generateSQLQuery"
  /\ response.error = sqlQuery
  /\ response.code = 500

\* the branch the classifier answer and the inputs select
ExpectedType ==
  IF queryType = "NEEDS_EXPLANATION" THEN "explanation"
  ELSE IF queryType = "NEEDS_INPUT" /\ inputs \in {"absent", "null"} THEN "input_required"
  ELSE "query"

\* C7: in POST /query the type of a successful response is determined by the
\* classifier answer and the presence of inputs (NEEDS_EXPLANATION:
\* explanation; NEEDS_INPUT with no inputs: input_required; every other case:
\* SQL is generated and the type is query), and on the explanation and
\* input_required branches neither generateSQLQuery nor executeQuery is called.
C7_TypeFollowsClassifier ==
  (entry \in {"query", "none"} /\ queryType # "") =>
    /\ (pc \in {"responded", "idle"} /\ response.success) => response.type = ExpectedType
    /\ ExpectedType \in {"explanation", "input_required"} =>
         /\ ~Called("generateSQLQuery")
         /\ ~Called("executeQuery")
         /\ driverCalls = << >>
    /\ (response.success /\ ExpectedType = "query") =>
         /\ Called("generateSQLQuery")
         /\ Called("executeQuery")
    /\ (pc \notin {"q_analyze", "q_catch", "responded", "idle"}) =>
         \/ pc = "q_explain" /\ ExpectedType = "explanation"
         \/ pc = "q_inputs" /\ ExpectedType = "input_required"
         \/ pc \in {"q_generate", "c_start", "c_aggregate", "c_count", "c_page",
                    "c_finally", "c_done"} /\ ExpectedType = "query"

\* C7 witness: the classifier asked for input, the request carried inputs,
\* and the answer is a query result
C7_Witness ==
  /\ pc = "responded"
  /\ queryType = "NEEDS_INPUT"
  /\ inputs = "empty"
  /\ origin = "api"
  /\ response.success
  /\ response.type = "query"

\* the request is the query interface's resubmission of a query that was
\* answered input_required, now with the collected values
Resubmitted == origin = "inputSubmit" /\ entry = "query" /\ pc = "responded"

\* C8 as stated: a resubmission with the collected values that no step
\* fails is answered, for every classifier answer, with type query, the
\* generated SQL and a pagination block, and never with input_required.
C8_ResubmitAlwaysQueryWithPagination ==
  (Resubmitted /\ response.success) =>
    /\ response.type = "query"
    /\ response.sql = sqlQuery
    /\ response.pagination # NoPagination

\* C8: a resubmission with the collected values is never answered
\* input_required and never asks for the inputs again; answered without a
\* failure it has type explanation when the classifier says NEEDS_EXPLANATION
\* and otherwise type query with the generated SQL, the pagination block
\* being present exactly when the SQL is not an aggregate statement.
C8_ResubmitNeverAsksAgain ==
  Resubmitted =>
    /\ nlQuery = pendingQuery
    /\ response.type # "input_required"
    /\ ~Called("identifyRequiredInputs")
    /\ response.success =>
         IF queryType = "NEEDS_EXPLANATION"
           THEN response.type = "explanation"
           ELSE /\ response.type = "query"
                /\ response.sql = sqlQuery
                /\ (response.pagination = NoPagination)
                     <=> isAggregateQuery(ClientNormalizedQuery(sqlQuery))

\* C8 witness: the classifier asked for input again and the resubmission was
\* answered with a page of rows
C8_Witness ==
  /\ Resubmitted
  /\ queryType = "NEEDS_INPUT"
  /\ inputs = "values"
  /\ response.type = "query"
  /\ response.pagination # NoPagination
  /\ response.rowCount = MaxExtraRows

\* C9: every failure of a POST /query request, at whichever step, is answered
\* with success:false, an error message and a suggestion field.
C9_EveryFailureHasSuggestion ==
  (entry = "query" /\ pc = "responded" /\ ~response.success) =>
    /\ {"success", "error", "suggestion"} \subseteq response.keys
    /\ response.error # ""

\* the least k with k * p >= n
Ceiling(n, p) == CHOOSE k \in 0..n : k * p >= n /\ (k = 0 \/ (k - 1) * p < n)

\* executeQuery has returned a page of a non-aggregate statement
PageReturned ==
  /\ entry = "client"
  /\ outcome.status = "ok"
  /\ ~isAggregateQuery(ClientNormalizedQuery(query))

\* C10: for a non-aggregate statement with N result rows and page size
\* P = 200, page ceil(N/P) holds the remaining rows with hasMore false, every
\* page p with 1 <= p < ceil(N/P) holds exactly P rows with hasMore true, and
\* in all cases total = N, totalPages = ceil(N/P), hasMore = (page*P < total).
C10_PageArithmetic ==
  PageReturned =>
    LET pg == outcome.pagination[1]
        P  == DEFAULT_PAGE_SIZE
        N  == dbRows
    IN  /\ P = 200
        /\ Len(outcome.pagination) = 1
        /\ pg.page = page
        /\ pg.pageSize = P
        /\ pg.total = N
        /\ pg.totalPages = Ceiling(N, P)
        /\ pg.hasMore = (page * P < N)
        /\ page = Ceiling(N, P) =>
             /\ outcome.rowCount = N - (page - 1) * P
             /\ outcome.rowCount >= 1
             /\ ~pg.hasMore
        /\ (1 <= page /\ page < Ceiling(N, P)) =>
             /\ outcome.rowCount = P
             /\ pg.hasMore
        /\ page > Ceiling(N, P) =>
             /\ outcome.rowCount = 0
             /\ ~pg.hasMore
        /\ pc = "responded" =>
             /\ response.rowCount = outcome.rowCount
             /\ response.pagination = outcome.pagination

\* C10 witness: the third and last page of a result of two full pages and a
\* rest has been returned
C10_Witness ==
  /\ PageReturned
  /\ pc = "responded"
  /\ dbRows = 2 * DEFAULT_PAGE_SIZE + MaxExtraRows
  /\ page = Ceiling(dbRows, DEFAULT_PAGE_SIZE)
  /\ response.rowCount = MaxExtraRows
  /\ response.pagination[1].totalPages = page
  /\ ~response.pagination[1].hasMore

\* w stands in s as a whole word: no letter, digit or underscore on either side
HasWord(s, w) ==
  \E i \in 1..Len(s) :
    /\ Sub(s, i, i + Len(w) - 1) = w
    /\ CharAt(s, i - 1) \notin WordChars
    /\ CharAt(s, i + Len(w)) \notin WordChars

\* the word group, one or more whitespace characters, the word by
HasGroupBy(s) ==
  \E i \in 1..Len(s), j \in 1..Len(s) :
    /\ i + 5 < j
    /\ Sub(s, i, i + 4) = "group"
    /\ CharAt(s, i - 1) \notin WordChars
    /\ \A k \in (i + 5)..(j - 1) : CharAt(s, k) \in Whitespace
    /\ Sub(s, j, j + 1) = "by"
    /\ CharAt(s, j + 2) \notin WordChars

\* the statement matches the aggregate pattern
MatchesAggregatePattern(s) ==
  \/ \E w \in {"count", "sum", "avg", "min", "max"} : HasWord(ToLowerCase(s), w)
  \/ HasGroupBy(ToLowerCase(s))

\* the LIMIT / OFFSET wrapping or the counting wrapping
IsWrapped(text) == StartsWith(text, "WITH user_query AS (")

\* C11: a statement that passes the guard and matches the aggregate pattern
\* is sent exactly once, as it is, with no count query and no LIMIT/OFFSET
\* wrapping, and its result has pagination null whatever the number of rows
\* and the requested page; a statement that does not match is paginated.
C11_AggregateRunsOnceUnpaged ==
  (entry = "client" /\ guard = "passed") =>
    IF MatchesAggregatePattern(cleanQuery)
      THEN /\ \A i \in 1..Len(driverCalls) :
                /\ driverCalls[i].kind = "raw"
                /\ driverCalls[i].text = cleanQuery
                /\ ~IsWrapped(driverCalls[i].text)
           /\ Len(driverCalls) <= 1
           /\ pc \in {"c_finally", "c_done", "responded"} => Len(driverCalls) = 1
           /\ outcome.status = "ok" =>
                /\ outcome.pagination = NoPagination
                /\ outcome.rowCount = dbRows
           /\ (pc = "responded" /\ response.success) => response.pagination = NoPagination
      ELSE /\ \A i \in 1..Len(driverCalls) :
                /\ driverCalls[i].kind \in {"count", "page"}
                /\ IsWrapped(driverCalls[i].text)
           /\ outcome.status = "ok" =>
                /\ Len(driverCalls) = 2
                /\ outcome.pagination # NoPagination
                /\ outcome.rowCount <= DEFAULT_PAGE_SIZE

\* C11 witness: a GROUP BY statement over more rows than a page holds was
\* asked for page 2 and returned every row, unpaged
C11_Witness ==
  /\ entry = "client"
  /\ pc = "responded"
  /\ page = 2
  /\ dbRows > DEFAULT_PAGE_SIZE
  /\ HasGroupBy(ToLowerCase(cleanQuery))
  /\ response.rowCount = dbRows
  /\ response.pagination = NoPagination
  /\ Len(driverCalls) = 1

\* a statement of the user, as it is or wrapped for counting or paging
UserStatementCall(c) == c.kind \in {"raw", "count", "page"}

\* C12: every user statement executed by the query executor (executeQuery of
\* lib/db-client.ts or of lib/db.ts) is sent after read-only transaction mode
\* and the 30 s statement timeout have been set for the request's session.
C12_SessionReadOnlyBeforeStatement ==
  entry \in {"client", "db"} =>
    \A i \in 1..Len(driverCalls) :
      UserStatementCall(driverCalls[i]) =>
        /\ \E j \in 1..(i - 1) : driverCalls[j] = DriverCall("set", SetReadOnly)
        /\ \E j \in 1..(i - 1) : driverCalls[j] = DriverCall("set", SetTimeout)

\* C13: for every interleaving of two concurrent requests with different
\* dbConfig values, every statement a request executes is sent to a pool
\* constructed from that request's own dbConfig.
C13_StatementsGoToOwnPool ==
  \A r \in DOMAIN procs :
    \A i \in 1..Len(procs[r].sent) : procs[r].sent[i].pool = r

\* the defect of an element, by the order of the checks; a field counts as
\* empty when it is the empty string or the number 0
Defect(input) ==
  IF \E f \in {"name", "description", "type", "example"} :
       input[f].t = "undefined" \/ input[f].v = "" \/ input[f].v = "0"
    THEN "fields"
  ELSE IF input.type.v \notin {"text", "number", "date"} THEN "type"
  ELSE IF input.type.v = "date" /\ input.example.v \notin {"2024-01-15", "2024-13-45"}
    THEN "date"
  ELSE "none"

FiveMinutes == 5 * 60 * 1000

Newest(seq, k) == SubSeq(seq, 1, IF Len(seq) < k THEN Len(seq) ELSE k)

\* C16: after any sequence of addQueryToContext calls on an initialised
\* ContextManager, recentQueries holds exactly the min(n, 10) most recent
\* attempts, successful or failed, newest first (the 11th and later additions
\* evict the oldest); on an uninitialised or cleared manager
\* addQueryToContext changes nothing.
C16_RecentQueriesBounded ==
  /\ context.initialised =>
       /\ context.recentQueries = Newest(attempted, 10)
       /\ Len(context.recentQueries) <= 10
       /\ \A i \in 1..(Len(context.recentQueries) - 1) :
            context.recentQueries[i].id > context.recentQueries[i + 1].id
  /\ ~context.initialised =>
       /\ attempted = << >>
       /\ context.recentQueries = << >>
       /\ context.relatedTables = {}

\* C16 witness: eleven attempts were added since initialize, the first of
\* them a failed one, and the list holds the ten later ones
C16_Witness ==
  /\ context.initialised
  /\ Len(attempted) = 11
  /\ ~attempted[11].success
  /\ Len(context.recentQueries) = 10
  /\ context.recentQueries[10] = attempted[10]
  /\ context.recentQueries[1] = attempted[1]

\* positions of the initializeLLM calls made before position i of the log
InitsBefore(i) == {j \in 1..(i - 1) : llmLog[j].op = "initializeLLM"}

\* C17: the two requests share one llm reference: every LLM call of either
\* request is made through the client built by the most recent initializeLLM
\* of either request, so that there is an interleaving in which a call of one
\* request goes through the client built from the other request's config.
C17_CallsUseLastInitializedClient ==
  \A i \in 1..Len(llmLog) :
    llmLog[i].op # "initializeLLM" =>
      /\ InitsBefore(i) # {}
      /\ llmLog[i].client = llmLog[SetMax(InitsBefore(i))].req

\* C17 witness: a request's classification and, later, its result validation
\* both went through the client built from the other request's config
C17_Witness ==
  \E i, j \in 1..Len(llmLog) :
    /\ i < j
    /\ llmLog[i].op = "analyzeQueryType"
    /\ llmLog[j].op = "validateQueryResult"
    /\ llmLog[i].req = llmLog[j].req
    /\ llmLog[i].client # llmLog[i].req
    /\ llmLog[j].client # llmLog[j].req

\* where a call of lib/db-client.ts executeQuery stands between the creation
\* of its pool and its finally block
InsideClientCall == pc \in {"c_aggregate", "c_count", "c_page", "c_finally"}

\* C18: every call of lib/db-client.ts executeQuery creates a pool of its
\* own and has ended it when the call completes, whatever the outcome
\* (aggregate or paged success, guard rejection, driver error in the count
\* or the page query); ending the pool, failing or not, leaves the call's
\* result or error as it was.
C18_PoolEndedOnEveryOutcome ==
  /\ [](entry = "client" =>
          /\ pc = "c_start" => ~poolOpen
          /\ InsideClientCall => poolOpen
          /\ pc \in {"c_done", "responded"} =>
               /\ ~poolOpen
               /\ outcome.status \in {"ok", "error"})
  /\ [][pc = "c_finally" => (outcome' = outcome /\ ~poolOpen')]_vars

\* C18 witness: the page query failed after the count query succeeded, and
\* the call completed with the pool ended and the driver's error
C18_Witness ==
  /\ entry = "client"
  /\ pc = "c_done"
  /\ Len(driverCalls) = 2
  /\ outcome.status = "error"
  /\ outcome.error = "relation does not exist"
  /\ ~poolOpen

RECURSIVE DecimalValue(_)
\* the number a decimal numeral, signed or not, stands for
DecimalValue(s) ==
  IF Len(s) = 0 THEN 0
  ELSE IF Sub(s, 1, 1) = "-" THEN 0 - DecimalValue(Sub(s, 2, Len(s)))
  ELSE DecimalValue(Sub(s, 1, Len(s) - 1)) * 10 + IndexOf(Digits, Sub(s, Len(s), Len(s)))

\* the numeral that follows the word OFFSET in a statement text
OffsetIn(text) == DecimalValue(Sub(text, IndexOf(text, "OFFSET ") + 8, Len(text)))

\* text opens with the user_query CTE whose body is body, as it is
EmbedsAsUserQuery(text, stmt) == StartsWith(text, "WITH user_query AS (" \o stmt \o ") ")

\* lib/db-client.ts executeQuery is on its paginated path
PaginatedPath ==
  /\ entry = "client"
  /\ guard = "passed"
  /\ ~MatchesAggregatePattern(cleanQuery)

\* C19: on the paginated path executeQuery sends exactly two statements,
\* the count statement first and the page statement second, both with the
\* same cleaned statement as the body of the user_query CTE; the total
\* reported is the count's answer, the rows are the page statement's, and
\* the page statement's OFFSET is (page - 1) * 200.
C19_CountThenPageOverSameStatement ==
  PaginatedPath =>
    LET clean == cleanQuery
        n     == Len(driverCalls)
    IN  /\ cleanQuery = ClientCleanQuery(query)
        /\ n <= 2
        /\ n >= 1 =>
             /\ EmbedsAsUserQuery(driverCalls[1].text, clean)
             /\ EndsWith(driverCalls[1].text, ") SELECT COUNT(*) as total FROM user_query")
             /\ IndexOf(driverCalls[1].text, "OFFSET") = -1
        /\ n = 2 =>
             /\ EmbedsAsUserQuery(driverCalls[2].text, clean)
             /\ IndexOf(driverCalls[2].text, "SELECT * FROM user_query") >= 0
             /\ IndexOf(driverCalls[2].text, "LIMIT 200 ") >= 0
             /\ IndexOf(driverCalls[2].text, "COUNT(*)") = -1
             /\ OffsetIn(driverCalls[2].text) = (page - 1) * 200
        /\ pc = "c_page" => (n = 1 /\ total = dbRows)
        /\ outcome.status = "ok" =>
             /\ n = 2
             /\ outcome.pagination[1].total = total
             /\ total = dbRows
             /\ outcome.firstRow = (page - 1) * 200 + 1
             /\ outcome.rowCount =
                  SetMax({0, SetMin({200, dbRows - (page - 1) * 200})})

\* C19 witness: page 2 of a statement cleaned of its semicolon has been
\* returned after the count and the page statement
C19_Witness ==
  /\ PaginatedPath
  /\ pc = "c_done"
  /\ outcome.status = "ok"
  /\ query # cleanQuery
  /\ page = 2
  /\ Len(driverCalls) = 2
  /\ OffsetIn(driverCalls[2].text) = 200

\* the inner catch has answered after a failure of the suggestion call
SuggestionFailedAndAnswered == catchPc = "responded" /\ suggestionCall = "failed"

\* C20: when query processing in POST /query fails and the suggestion call
\* fails as well, the response carries the processing error as it was and
\* the suggestion 'No suggestion available': the failure of the suggestion
\* call neither takes the place of the error nor removes the suggestion.
C20_SuggestionFailureKeepsError ==
  SuggestionFailedAndAnswered =>
    /\ catchResponse.code = 500
    /\ ~catchResponse.success
    /\ catchResponse.error = processingError
    /\ "suggestion" \in catchResponse.keys
    /\ catchResponse.suggestion = "No suggestion available"

\* C20 in the handler with pagination (route.ts lines 170-284) alone
C20_GuardedCatchKeepsError ==
  (SuggestionFailedAndAnswered /\ catchVersion = "route.ts:170") =>
    /\ catchResponse.error = processingError
    /\ "suggestion" \in catchResponse.keys
    /\ catchResponse.suggestion = "No suggestion available"

\* the handler with pagination has answered after both calls failed
C20_GuardedWitness ==
  /\ SuggestionFailedAndAnswered
  /\ catchVersion = "route.ts:170"
  /\ processingError = "relation does not exist"

\* the steps of the POST /query pipeline
PipelineSteps ==
  {"getSchema", "analyzeQueryType", "identifyRequiredInputs", "generateSQLQuery",
   "executeQuery"}

\* how often the request has called f
TimesCalled(f) == Cardinality({i \in 1..Len(calls) : calls[i].fn = f})

\* a step of the request has failed
StepFailed == pc \in {"q_catch", "q_outer"} \/ outcome.status = "error"

\* C21: within one POST /query request every pipeline step (schema fetch,
\* classification, input elicitation, generation, execution) is called at
\* most once, and after a step has failed nothing is generated or executed
\* again: the one call that may follow is the error-suggestion call, once
\* and last.
C21_NoStepRepeatedNoRetry ==
  /\ [](entry = "query" =>
          /\ \A f \in PipelineSteps \cup {"getSuggestionForError"} : TimesCalled(f) <= 1
          /\ \A i \in 1..Len(calls) :
               calls[i].fn = "getSuggestionForError" => i = Len(calls)
          /\ Len(driverCalls) <= 2)
  /\ [][(entry = "query" /\ StepFailed) =>
          /\ driverCalls' = driverCalls
          /\ \/ calls' = calls
             \/ /\ Len(calls') = Len(calls) + 1
                /\ SubSeq(calls', 1, Len(calls)) = calls
                /\ calls'[Len(calls')].fn = "getSuggestionForError"
                /\ pc' = "responded"]_vars

\* C21 witness: execution failed in its page statement, the suggestion call
\* followed, and the request was answered
C21_Witness ==
  /\ entry = "query"
  /\ pc = "responded"
  /\ ~response.success
  /\ Len(driverCalls) = 2
  /\ TimesCalled("executeQuery") = 1
  /\ TimesCalled("generateSQLQuery") = 1
  /\ calls[Len(calls)].fn = "getSuggestionForError"

\* C22: a schema fetch for a connection identity within 5 minutes of a
\* successful one is answered from the cache, without a catalog query, and
\* every successful introspection leaves its schema in the cache.
C22_FetchWithinTtlFromCache ==
  /\ catalogSent.n > 0 =>
       (catalogSent.prev = -1 \/ catalogSent.at - catalogSent.prev > FiveMinutes)
  /\ \A key \in DOMAIN lastIntrospection :
       /\ key \in DOMAIN schemaCache
       /\ schemaCache[key].timestamp = lastIntrospection[key]

\* C26: every pool created while a request is served has been ended once
\* getSchema has returned or thrown, and once a request that called
\* initializeDatabase has been answered.
C26_NoPoolLeftOpen ==
  fetchPc = "idle" => openPools = 0

\* C26 where it holds: getSchema has returned a schema
C26_GetSchemaSuccessEndsPool ==
  [][(fetchPc = "query" /\ fetchRoute = "getSchema" /\ fetchAnswer' = "ok")
       => openPools' = openPools - 1]_vars

\* the loop of findRelevantPreviousContext has scored the prior queries i and j
Scored(i, j) ==
  /\ i \in 1..Len(scores)
  /\ j \in 1..Len(scores)

\* prior query i is marked successful and is at least as recent as j
SuccessfulAndMoreRecent(i, j) ==
  /\ prevQueries[i].success
  /\ prevQueries[i].timestamp >= prevQueries[j].timestamp

\* prior queries i and j share as many words with the current query
SameWordOverlap(i, j) ==
  WordOverlap(naturalQuery, prevQueries[i]) = WordOverlap(naturalQuery, prevQueries[j])

\* C23 as stated: of two prior queries with the same word overlap, the one
\* marked successful and more recent scores at least as high as the other,
\* whatever tables they used and whatever the time.
C23_SuccessAndRecencyNeverLower ==
  \A i, j \in 1..Len(prevQueries) :
    (Scored(i, j) /\ SameWordOverlap(i, j) /\ SuccessfulAndMoreRecent(i, j))
      => scores[i].score >= scores[j].score

\* C23, amended: of two prior queries with the same word overlap and the
\* same table overlap, scored at the same reading of the clock, the one
\* marked successful and more recent scores at least as high as the other.
C23_SuccessAndRecencyNeverLowerOnEqualBase ==
  \A i, j \in 1..Len(prevQueries) :
    (/\ Scored(i, j)
     /\ SameWordOverlap(i, j)
     /\ TableOverlap(naturalQuery, prevQueries[i]) = TableOverlap(naturalQuery, prevQueries[j])
     /\ scores[i].at = scores[j].at
     /\ SuccessfulAndMoreRecent(i, j))
      => scores[i].score >= scores[j].score

\* C23 witness: two prior queries sharing one word and one table with the
\* current query, the first failed and two hours old, the second successful
\* and a millisecond old, and the second scores three times the first
C23_Witness ==
  /\ findPc = "returned"
  /\ Len(scores) = 2
  /\ clockStep = 0
  /\ WordOverlap(naturalQuery, prevQueries[1]) = 1
  /\ SameWordOverlap(2, 1)
  /\ TableOverlap(naturalQuery, prevQueries[1]) = 1
  /\ TableOverlap(naturalQuery, prevQueries[2]) = 1
  /\ ~prevQueries[1].success
  /\ SuccessfulAndMoreRecent(2, 1)
  /\ prevQueries[1].timestamp = 0
  /\ scores[2].score > 2 * scores[1].score

\* the highest score the loop computed
MaxScore == SetMax({ scores[i].score : i \in 1..Len(scores) })

\* C24: findRelevantPreviousContext returns a prior query whose score is the
\* maximum over recentQueries, and only when that maximum is greater than 1,
\* null otherwise; of several prior queries with the maximal score it
\* returns the first in the order of recentQueries.
C24_ReturnsFirstMaximumAboveOne ==
  findPc = "returned" =>
    IF ~hasContext \/ Len(prevQueries) = 0
      THEN relevant = 0
      ELSE /\ Len(scores) = Len(prevQueries)
           /\ IF MaxScore > ScoreUnit
                THEN /\ relevant \in 1..Len(prevQueries)
                     /\ scores[relevant].score = MaxScore
                     /\ \A i \in 1..(relevant - 1) : scores[i].score < MaxScore
                ELSE relevant = 0

\* C24 witness: two prior queries with the same score above 1, and the first
\* was returned
C24_Witness ==
  /\ findPc = "returned"
  /\ Len(scores) = 2
  /\ scores[1].score = scores[2].score
  /\ scores[1].score > ScoreUnit
  /\ relevant = 1

\* C25: the guard of lib/db.ts executeQuery and the guard of
\* lib/db-client.ts executeQuery decide alike on every SQL string: what one
\* has rejected or passed, the other rejects or passes too.
C25_GuardCopiesAgree ==
  /\ (entry = "client" /\ guard # "none") =>
       ((guard = "rejected") <=> hasWriteOperation(DbNormalizedQuery(query)))
  /\ (entry = "db" /\ guard # "none") =>
       ((guard = "rejected") <=> hasWriteOperation(ClientNormalizedQuery(query)))

\* C27: in the query interface, whenever the pagination state is not null
\* it is the pagination of the last history item, and a page request
\* carries the SQL of that item: never an undefined SQL, never the SQL of
\* another query than the one whose pagination is shown.
C27_PaginationBelongsToLastItem ==
  /\ pagination # NoPaging =>
       /\ Len(history) > 0
       /\ history[Len(history)].sqlQuery # NoSql
       /\ history[Len(history)].sqlQuery.id = pagination.q
       /\ history[Len(history)].pagination = pagination
  /\ \A r \in inFlight : r.sql # NoSql

\* C28: a new natural-language query submitted through handleSubmit is
\* requested for page 1, whatever page changes were made before.
C28_SubmitAsksForPageOne ==
  submittedPage \in {0, 1}

\* C29: once the answers to all page requests have arrived, the pagination
\* shown and the last item's pagination are those of the last page requested
\* (currentPage), in whatever order the answers arrived.
C29_LastRequestedPageShown ==
  (/\ inFlight = {}
   /\ pageRun.requested > 0
   /\ pageRun.clean
   /\ ~pageRun.failed) =>
    /\ pagination.page = currentPage
    /\ history[Len(history)].pagination.page = currentPage

\* C30: ConfigForm calls onConnect only with database settings for which
\* the most recent connection test succeeded, also when a field was edited
\* while the test request was in flight.
C30_ConnectsOnlyTestedSettings ==
  ~FormShown =>
    /\ pageConfig.tested.ok
    /\ pageConfig.tested.settings = pageConfig.settings

\* C30, the part that holds: onConnect is called only after the most recent
\* connection test succeeded, for whatever settings that test carried.
C30_ConnectsOnlyAfterSuccessfulTest ==
  ~FormShown => pageConfig.tested.ok

=============================================================================
